---------------------------- MODULE Spec2Model ----------------------------
(***************************************************************************)
(* Model of the CNPJ resolution and validation pipeline:                   *)
(*   cnpj_api.py            CNPJDataFetcher  (two JSON sources, cache)     *)
(*   cnpj_scraper.py        CNPJScraper      (two HTML sources, cache)     *)
(*   consulta_cnpj_massa.py APILocalidades, ConsultorCNPJ,                 *)
(*                          AnalisadorDadosEmpresa                         *)
(*   localization_api.py    LocalizationAPI                                *)
(*   scraper_cnpj.py        CNPJScraper (parallel variant)                 *)
(*                                                                         *)
(* Python strings whose characters matter (identifiers, municipality      *)
(* names) are sequences of one-character strings; strings only compared   *)
(* for equality (region codes, tags) are TLA+ strings.                     *)
(***************************************************************************)
EXTENDS Integers, Sequences, FiniteSets, TLC

VARIABLES
    component,   \* the class whose instance this run exercises
    n_in,        \* normalizer: the input string
    n_cur,       \* normalizer: the current string
    n_steps,     \* normalizer: the functions applied so far, in order
    cache,       \* resolver: self.cache, canonical identifier -> record
    pc,          \* resolver: where the (single) thread of control stands
    cur,         \* resolver: the cnpj argument of the resolve in progress
    result,      \* resolver: the local variable result (None or a record)
    trace,       \* resolver: requests and sleeps of the resolve in progress
    caller,      \* resolver: who called the resolve in progress
    calls,       \* history: the resolves completed so far in this run
    frame,       \* local values of the call in progress: the validation pair of
                 \* processar_lote, the response an adapter received
    b_list,      \* batch: the input list
    b_idx,       \* batch: the loop index (0-based)
    b_results,   \* batch: the local list results
    b_progress,  \* batch: the progress callbacks made, in order
    b_state,     \* batch: "none", "running", "done" or "raised"
    cache_municipios,  \* APILocalidades.cache_municipios, region code -> names
    cities_cache,      \* LocalizationAPI.cities_cache, region code -> names
    d_calls,           \* history: the directory lookups completed so far
    d_last,            \* the last call of a directory or classifier function
    workers,           \* threads: the call each worker thread is executing
    w_events,          \* threads: requests and cache writes, in order
    pool               \* scrape_all_companies: the executor, its futures, the results

nvars == <<n_in, n_cur, n_steps>>
rvars == <<cache, pc, cur, result, trace, caller, calls, frame>>
bvars == <<b_list, b_idx, b_results, b_progress, b_state>>
rvars_but_pc == <<cache, cur, result, trace, caller, calls>>
dvars == <<cache_municipios, cities_cache, d_calls, d_last>>
wvars == <<workers, w_events, pool>>
vars == <<component, nvars, rvars, bvars, dvars, wvars>>

(***************************************************************************)
(* Bounds of the model.                                                    *)
(***************************************************************************)
VarDigits == 4     \* leading digits of a canonical identifier that vary
MaxRawLen == 3     \* longest arbitrary raw input of the normalizer
MaxChain == 3      \* longest chain of normalizer calls

(***************************************************************************)
(* Python string built-ins.                                                *)
(***************************************************************************)
Min(a, b) == IF a < b THEN a ELSE b

\* s[a:b] for 0 <= a <= b
slice(s, a, b) == SubSeq(s, a + 1, Min(b, Len(s)))

\* s.replace(old, new) for a one-character old; new is a string
RECURSIVE replace(_, _, _)
replace(s, old, new) ==
    IF s = <<>> THEN <<>>
    ELSE (IF Head(s) = old THEN new ELSE <<Head(s)>>) \o replace(Tail(s), old, new)

\* ch in s.upper() / s.lower() for one character of the model's alphabet
\* the letters that occur in the program's tables and inputs
UpperLetters == <<"A", "B", "C", "D", "E", "F", "G", "H", "I", "J", "K", "L", "M", "N", "O", "P", "Q", "R", "S", "T", "U", "V", "W", "X", "Y", "Z", "Á", "Ã", "Â", "Ç", "É", "Ê", "Í", "Ó", "Õ", "Ô", "Ú">>
LowerLetters == <<"a", "b", "c", "d", "e", "f", "g", "h", "i", "j", "k", "l", "m", "n", "o", "p", "q", "r", "s", "t", "u", "v", "w", "x", "y", "z", "á", "ã", "â", "ç", "é", "ê", "í", "ó", "õ", "ô", "ú">>

upper_char(ch) ==
    IF \E i \in 1..Len(LowerLetters) : LowerLetters[i] = ch
    THEN UpperLetters[CHOOSE i \in 1..Len(LowerLetters) : LowerLetters[i] = ch]
    ELSE ch

lower_char(ch) ==
    IF \E i \in 1..Len(UpperLetters) : UpperLetters[i] = ch
    THEN LowerLetters[CHOOSE i \in 1..Len(UpperLetters) : UpperLetters[i] = ch]
    ELSE ch

upper(s) == [i \in 1..Len(s) |-> upper_char(s[i])]
lower(s) == [i \in 1..Len(s) |-> lower_char(s[i])]

\* sub in s
contains(s, sub) ==
    \E i \in 0..(Len(s) - Len(sub)) : SubSeq(s, i + 1, i + Len(sub)) = sub

\* s.strip()
Whitespace == {" "}
RECURSIVE lstrip(_)
lstrip(s) == IF s # <<>> /\ Head(s) \in Whitespace THEN lstrip(Tail(s)) ELSE s
RECURSIVE rstrip(_)
rstrip(s) ==
    IF s # <<>> /\ s[Len(s)] \in Whitespace THEN rstrip(SubSeq(s, 1, Len(s) - 1)) ELSE s
strip(s) == lstrip(rstrip(s))

\* s.split(sep)[-1] for a one-character sep
RECURSIVE split_last(_, _)
split_last(s, sep) ==
    IF \E i \in 1..Len(s) : s[i] = sep
    THEN split_last(SubSeq(s, (CHOOSE i \in 1..Len(s) : s[i] = sep /\ \A j \in 1..(i - 1) : s[j] # sep) + 1, Len(s)), sep)
    ELSE s

(***************************************************************************)
(* Identifier normalizer: cnpj_api.py, cnpj_scraper.py,                    *)
(* consulta_cnpj_massa.py (inline), scraper_cnpj.py.                       *)
(***************************************************************************)
CnpjLen == 14

CNPJDataFetcher_clean_cnpj(cnpj) ==
    replace(replace(replace(cnpj, ".", <<>>), "-", <<>>), "/", <<>>)

CNPJDataFetcher_format_cnpj_shifted(cnpj) ==
    LET clean == CNPJDataFetcher_clean_cnpj(cnpj)
    IN  IF Len(clean) = CnpjLen
        THEN slice(clean, 0, 2) \o <<".">> \o slice(clean, 2, 5) \o <<".">>
             \o slice(clean, 5, 8) \o <<"/">> \o slice(clean, 8, 11) \o <<"-">>
             \o slice(clean, 11, 14)
        ELSE cnpj

CNPJDataFetcher_format_cnpj(cnpj) ==
    LET clean == CNPJDataFetcher_clean_cnpj(cnpj)
    IN  IF Len(clean) = CnpjLen
        THEN slice(clean, 0, 2) \o <<".">> \o slice(clean, 2, 5) \o <<".">>
             \o slice(clean, 5, 8) \o <<"/">> \o slice(clean, 8, 12) \o <<"-">>
             \o slice(clean, 12, 14)
        ELSE cnpj

CNPJScraper_clean_cnpj(cnpj) ==
    replace(replace(replace(cnpj, ".", <<>>), "-", <<>>), "/", <<>>)

CNPJScraper_format_cnpj(cnpj) ==
    LET clean == CNPJScraper_clean_cnpj(cnpj)
    IN  IF Len(clean) = CnpjLen
        THEN slice(clean, 0, 2) \o <<".">> \o slice(clean, 2, 5) \o <<".">>
             \o slice(clean, 5, 8) \o <<"/">> \o slice(clean, 8, 12) \o <<"-">>
             \o slice(clean, 12, 14)
        ELSE cnpj

\* consultar_brasilapi, line 84: the replace chain in the order written there
ConsultorCNPJ_cnpj_limpo(cnpj) ==
    replace(replace(replace(cnpj, ".", <<>>), "/", <<>>), "-", <<>>)

\* scraper_cnpj.py: replace(".", "").replace("-", "/")
ParallelScraper_clean_cnpj(cnpj) ==
    replace(replace(cnpj, ".", <<>>), "-", <<"/">>)

(***************************************************************************)
(* Inputs of the normalizer.                                               *)
(***************************************************************************)
BaseCnpj == <<"1", "1", "2", "2", "2", "3", "3", "3", "0", "0", "0", "1", "8", "1">>
DigitChoice == {"0", "4", "9"}
RawAlphabet == {"1", "a", ".", "-", "/"}

\* canonical identifiers: 14 digits, the leading VarDigits of them varying
CanonIds ==
    { [i \in 1..CnpjLen |-> IF i <= Len(d) THEN d[i] ELSE BaseCnpj[i]] :
        d \in [1..Min(VarDigits, CnpjLen) -> DigitChoice] }

\* arbitrary raw strings, punctuation anywhere, up to MaxRawLen characters
RawStrings == UNION { [1..k -> RawAlphabet] : k \in 0..MaxRawLen }

NormInputs == CanonIds \cup RawStrings

NormComponents ==
    {"CNPJDataFetcher", "CNPJScraper", "ConsultorCNPJ", "ParallelScraper"}

(***************************************************************************)
(* Normalizer: one action per function, applied to the current string.     *)
(***************************************************************************)
NormApply(name, out) ==
    /\ Len(n_steps) < MaxChain
    /\ n_cur' = out
    /\ n_steps' = Append(n_steps, name)
    /\ UNCHANGED <<component, wvars, n_in, rvars, bvars, dvars>>

Fetcher_clean ==
    /\ component = "CNPJDataFetcher"
    /\ NormApply("clean", CNPJDataFetcher_clean_cnpj(n_cur))

Fetcher_format ==
    /\ component = "CNPJDataFetcher"
    /\ NormApply("format", CNPJDataFetcher_format_cnpj(n_cur))

Scraper_clean ==
    /\ component = "CNPJScraper"
    /\ NormApply("clean", CNPJScraper_clean_cnpj(n_cur))

Scraper_format ==
    /\ component = "CNPJScraper"
    /\ NormApply("format", CNPJScraper_format_cnpj(n_cur))

Consultor_clean ==
    /\ component = "ConsultorCNPJ"
    /\ NormApply("clean", ConsultorCNPJ_cnpj_limpo(n_cur))

Parallel_clean ==
    /\ component = "ParallelScraper"
    /\ NormApply("clean", ParallelScraper_clean_cnpj(n_cur))

(***************************************************************************)
(* Python values shared by the resolvers.                                  *)
(***************************************************************************)
None == <<>>            \* Optional[Dict]: None
Some(r) == <<r>>        \* Optional[Dict]: a dict
the(opt) == opt[1]

\* d.get(k, default) for a dict d with string keys
get(d, k, default) == IF k \in DOMAIN d THEN d[k] ELSE default

\* what one HTTP request can do: the kinds of failure, or status 200 with a
\* body of the expected shape
Failure(kind) == [kind |-> kind, body |-> <<>>]
Ok(body) == [kind |-> "ok", body |-> body]
FailureKinds == {"timeout", "conn_error", "status", "bad_json", "bad_shape"}
Failures == { Failure(k) : k \in FailureKinds }

\* events of one resolve
Request(src, key) == [ev |-> "request", src |-> src, key |-> key]
Sleep(dur) == [ev |-> "sleep", src |-> dur, key |-> <<>>]

\* the identifiers the client passes in
IdDisplay == <<"1", "1", ".", "2", "2", "2", ".", "3", "3", "3", "/", "0", "0", "0", "1", "-", "8", "1">>
IdCanon == BaseCnpj
IdShort == <<"1", "2", "-", "3">>
ResolveIds == {IdDisplay, IdCanon, IdShort}

MaxCalls == 3      \* resolves in one run
MaxBatch == 3      \* longest batch input

BatchLists == UNION { [1..k -> ResolveIds] : k \in 0..MaxBatch }

\* no local value held
NoFrame == [validacao_uf |-> FALSE, uf_normalizado |-> <<>>]

\* the resolve in progress has ended with ret (returned) or raised
Completed(ret, raised, tr) ==
    Append(calls, [who |-> caller, cnpj |-> cur, ret |-> ret, raised |-> raised,
                   trace |-> tr])

(***************************************************************************)
(* cnpj_api.py: CNPJDataFetcher.                                           *)
(***************************************************************************)
CnpjsDevBodies ==
    { [nome |-> "ACME LTDA", nome_fantasia |-> "ACME", municipio |-> "SAO PAULO",
       uf |-> "SP", logradouro |-> "RUA A", numero |-> "10", cep |-> "01000-000"],
      [other |-> "x"] }
CnpjsDevOutcomes == Failures \cup { Ok(b) : b \in CnpjsDevBodies }

MoccasinBodies ==
    { [company |-> [name |-> "ACME LTDA", alias |-> "ACME"],
       address |-> [city |-> "SAO PAULO", state |-> "SP", street |-> "RUA A",
                    number |-> "10", zip_code |-> "01000-000"]],
      [company |-> [name |-> "BETA SA"]] }
MoccasinOutcomes == Failures \cup { Ok(b) : b \in MoccasinBodies }

fetch_from_cnpjs_dev(cnpj, o) ==
    CASE o.kind = "ok" ->
            Some([cnpj |-> CNPJDataFetcher_format_cnpj(cnpj),
                  razao_social |-> get(o.body, "nome", "N/A"),
                  nome_fantasia |-> get(o.body, "nome_fantasia", "N/A"),
                  cidade |-> get(o.body, "municipio", "Nao informada"),
                  uf |-> get(o.body, "uf", "Nao informada"),
                  logradouro |-> get(o.body, "logradouro", "N/A"),
                  numero |-> get(o.body, "numero", "N/A"),
                  cep |-> get(o.body, "cep", "N/A"),
                  status |-> "encontrado",
                  fonte |-> "cnpjs.dev"])
      [] o.kind = "status" -> None       \* line 57
      [] o.kind = "timeout" -> None      \* lines 59-61
      [] OTHER -> None                   \* lines 62-64: any other exception

fetch_from_moccasin(cnpj, o) ==
    CASE o.kind = "ok" ->
            LET company == get(o.body, "company", [other |-> "x"])
                address == get(o.body, "address", [other |-> "x"])
            IN  Some([cnpj |-> CNPJDataFetcher_format_cnpj(cnpj),
                      razao_social |-> get(company, "name", "N/A"),
                      nome_fantasia |-> get(company, "alias", "N/A"),
                      cidade |-> get(address, "city", "Nao informada"),
                      uf |-> get(address, "state", "Nao informada"),
                      logradouro |-> get(address, "street", "N/A"),
                      numero |-> get(address, "number", "N/A"),
                      cep |-> get(address, "zip_code", "N/A"),
                      status |-> "encontrado",
                      fonte |-> "moccasin"])
      [] o.kind = "status" -> None       \* line 89
      [] o.kind = "timeout" -> None      \* lines 91-93
      [] OTHER -> None                   \* lines 94-96

\* lines 118-129
Fetcher_not_found(cnpj) ==
    [cnpj |-> CNPJDataFetcher_format_cnpj(cnpj),
     razao_social |-> "Nao encontrada", nome_fantasia |-> "N/A",
     cidade |-> "Nao encontrada", uf |-> "Nao encontrada",
     logradouro |-> "N/A", numero |-> "N/A", cep |-> "N/A",
     status |-> "nao_encontrado", fonte |-> "nenhuma"]

\* d[k] = v for a dict d
put(d, k, v) == [x \in DOMAIN d \cup {k} |-> IF x = k THEN v ELSE d[x]]
EmptyDict == [x \in {} |-> x]

\* fetch_cnpj_data, lines 102-107: the cache check
Fetcher_enter(cnpj, who) ==
    LET clean_cnpj == CNPJDataFetcher_clean_cnpj(cnpj)
    IN  /\ cur' = cnpj
        /\ caller' = who
        /\ trace' = <<>>
        /\ IF clean_cnpj \in DOMAIN cache
           THEN /\ result' = Some(cache[clean_cnpj])
                /\ calls' = Append(calls, [who |-> who, cnpj |-> cnpj,
                                           ret |-> Some(cache[clean_cnpj]),
                                           raised |-> FALSE, trace |-> <<>>])
                /\ pc' = IF who = "batch" THEN "returned" ELSE "idle"
           ELSE /\ result' = None
                /\ calls' = calls
                /\ pc' = "src1"
        /\ UNCHANGED cache

\* a client calls fetch_cnpj_data(cnpj)
Fetcher_fetch_cnpj_data ==
    /\ component = "CNPJDataFetcher"
    /\ pc = "idle"
    /\ Len(calls) < MaxCalls
    /\ \E cnpj \in ResolveIds : Fetcher_enter(cnpj, "client")
    /\ UNCHANGED <<component, wvars, nvars, bvars, dvars, frame>>

\* line 110: result = self.fetch_from_cnpjs_dev(cnpj)
Fetcher_src1 ==
    /\ component = "CNPJDataFetcher"
    /\ pc = "src1"
    /\ \E o \in CnpjsDevOutcomes :
         /\ result' = fetch_from_cnpjs_dev(cur, o)
         /\ pc' = IF result' = None THEN "sleep" ELSE "store"
    /\ trace' = Append(trace, Request("cnpjs.dev", CNPJDataFetcher_clean_cnpj(cur)))
    /\ UNCHANGED <<component, wvars, nvars, bvars, dvars, cache, cur, caller, calls, frame>>

\* the variant of the fallback that does not wait
Fetcher_sleep_skipped ==
    /\ component = "CNPJDataFetcher"
    /\ pc = "sleep"
    /\ trace' = trace
    /\ pc' = "src2"
    /\ UNCHANGED <<component, wvars, nvars, bvars, dvars, cache, cur, result, caller, calls, frame>>

\* lines 112-114: sleep(0.5) before the fallback
Fetcher_sleep ==
    /\ component = "CNPJDataFetcher"
    /\ pc = "sleep"
    /\ trace' = Append(trace, Sleep("0.5"))
    /\ pc' = "src2"
    /\ UNCHANGED <<component, wvars, nvars, bvars, dvars, cache, cur, result, caller, calls, frame>>

\* the variant of the fallback that asks the first source again
Fetcher_src2_retrying_first ==
    /\ component = "CNPJDataFetcher"
    /\ pc = "src2"
    /\ \E o \in CnpjsDevOutcomes :
         LET r == fetch_from_cnpjs_dev(cur, o)
         IN  result' = IF r = None THEN Some(Fetcher_not_found(cur)) ELSE r
    /\ trace' = Append(trace, Request("cnpjs.dev", CNPJDataFetcher_clean_cnpj(cur)))
    /\ pc' = "store"
    /\ UNCHANGED <<component, wvars, nvars, bvars, dvars, cache, cur, caller, calls, frame>>

\* lines 115-129: result = self.fetch_from_moccasin(cnpj), else the
\* not-found record
Fetcher_src2 ==
    /\ component = "CNPJDataFetcher"
    /\ pc = "src2"
    /\ \E o \in MoccasinOutcomes :
         LET r == fetch_from_moccasin(cur, o)
         IN  result' = IF r = None THEN Some(Fetcher_not_found(cur)) ELSE r
    /\ trace' = Append(trace, Request("moccasin", CNPJDataFetcher_clean_cnpj(cur)))
    /\ pc' = "store"
    /\ UNCHANGED <<component, wvars, nvars, bvars, dvars, cache, cur, caller, calls, frame>>

\* the variant of the store that keeps only the latest record
Fetcher_store_evicting ==
    /\ component = "CNPJDataFetcher"
    /\ pc = "store"
    /\ cache' = put(EmptyDict, CNPJDataFetcher_clean_cnpj(cur), the(result))
    /\ calls' = Completed(result, FALSE, trace)
    /\ pc' = IF caller = "batch" THEN "returned" ELSE "idle"
    /\ UNCHANGED <<component, wvars, nvars, bvars, dvars, cur, result, trace, caller, frame>>

\* lines 146-147: self.cache[clean_cnpj] = result; return result
Fetcher_store ==
    /\ component = "CNPJDataFetcher"
    /\ pc = "store"
    /\ cache' = put(cache, CNPJDataFetcher_clean_cnpj(cur), the(result))
    /\ calls' = Completed(result, FALSE, trace)
    /\ pc' = IF caller = "batch" THEN "returned" ELSE "idle"
    /\ UNCHANGED <<component, wvars, nvars, bvars, dvars, cur, result, trace, caller, frame>>

\* fetch_batch, lines 153-154
Fetcher_fetch_batch ==
    /\ component = "CNPJDataFetcher"
    /\ pc = "idle"
    /\ b_state = "none"
    /\ \E l \in BatchLists :
         /\ Len(calls) + Len(l) <= MaxCalls
         /\ b_list' = l
    /\ b_idx' = 0
    /\ b_results' = <<>>
    /\ b_progress' = <<>>
    /\ b_state' = "running"
    /\ pc' = "loop"
    /\ UNCHANGED <<component, wvars, nvars, dvars, cache, cur, result, trace, caller, calls, frame>>

\* lines 156-158: the next cnpj of the list
Fetcher_batch_iter ==
    /\ component = "CNPJDataFetcher"
    /\ pc = "loop"
    /\ b_idx < Len(b_list)
    /\ Fetcher_enter(b_list[b_idx + 1], "batch")
    /\ UNCHANGED <<component, wvars, nvars, bvars, dvars, frame>>

\* the variant of the loop body that reports the identifiers still to do
Fetcher_batch_append_remaining ==
    /\ component = "CNPJDataFetcher"
    /\ pc = "returned"
    /\ b_results' = Append(b_results, the(result))
    /\ b_progress' = Append(b_progress, <<Len(b_list) - b_idx, Len(b_list)>>)
    /\ b_idx' = b_idx + 1
    /\ pc' = "loop"
    /\ UNCHANGED <<component, wvars, nvars, dvars, b_list, b_state, cache, cur, result,
                   trace, caller, calls, frame>>

\* lines 159-164: results.append(data); progress_callback(idx + 1, total);
\* sleep(0.2)
Fetcher_batch_append ==
    /\ component = "CNPJDataFetcher"
    /\ pc = "returned"
    /\ b_results' = Append(b_results, the(result))
    /\ b_progress' = Append(b_progress, <<b_idx + 1, Len(b_list)>>)
    /\ b_idx' = b_idx + 1
    /\ pc' = "loop"
    /\ UNCHANGED <<component, wvars, nvars, dvars, b_list, b_state, cache, cur, result,
                   trace, caller, calls, frame>>

\* line 181: return pd.DataFrame(results)
Fetcher_batch_return ==
    /\ component = "CNPJDataFetcher"
    /\ pc = "loop"
    /\ b_idx >= Len(b_list)
    /\ b_state' = "done"
    /\ pc' = "idle"
    /\ UNCHANGED <<component, wvars, nvars, dvars, b_list, b_idx, b_results, b_progress,
                   rvars_but_pc, frame>>

(***************************************************************************)
(* cnpj_scraper.py: CNPJScraper.  A page is soup.get_text(), as its lines. *)
(***************************************************************************)
ReceitaPages ==
    { << <<"R", "a", "z", "a", "o", " ", "S", "o", "c", "i", "a", "l", ":", " ", "A", "C", "M", "E", " ", "L", "T", "D", "A">>, <<"M", "u", "n", "i", "c", "i", "p", "i", "o", ":", " ", "S", "a", "o", " ", "P", "a", "u", "l", "o">>, <<"U", "F", ":", " ", "S", "P">> >>,
      << <<"C", "N", "P", "J", " ", "n", "a", "o", " ", "f", "o", "i", " ", "e", "n", "c", "o", "n", "t", "r", "a", "d", "o">> >> }
ReceitaOutcomes == Failures \cup { Ok(p) : p \in ReceitaPages }

SintegraPages ==
    { << <<"R", "A", "Z", "A", "O", " ", "S", "O", "C", "I", "A", "L", ":", " ", "A", "C", "M", "E", " ", "L", "T", "D", "A">>, <<"M", "u", "n", "i", "c", "i", "p", "i", "o", ":", " ", "S", "a", "o", " ", "P", "a", "u", "l", "o">>, <<"U", "F", ":", " ", "S", "P">> >>,
      << <<"C", "N", "P", "J", " ", "N", "A", "O", " ", "L", "O", "C", "A", "L", "I", "Z", "A", "D", "O">> >>,
      << <<"R", "A", "Z", "A", "O", " ", "S", "O", "C", "I", "A", "L", " ", "A", "C", "M", "E">> >> }
SintegraOutcomes == Failures \cup { Ok(p) : p \in SintegraPages }

\* X in text_content
text_contains(page, x) == \E i \in 1..Len(page) : contains(page[i], x)

\* re.search(label + r'[:\s]+([^\n<]+)', text, re.IGNORECASE): the capture of
\* the first line that holds the label followed by separators, or None
re_search_label(page, label) ==
    LET hit(line) == \E i \in 1..Len(line) :
                        /\ i + Len(label) <= Len(line)
                        /\ SubSeq(lower(line), i, i + Len(label) - 1) = lower(label)
                        /\ line[i + Len(label)] \in {":", " "}
        cap(line) == LET i == CHOOSE i \in 1..Len(line) :
                                 /\ i + Len(label) <= Len(line)
                                 /\ SubSeq(lower(line), i, i + Len(label) - 1) = lower(label)
                                 /\ line[i + Len(label)] \in {":", " "}
                         rest == SubSeq(line, i + Len(label), Len(line))
                         RECURSIVE skip(_)
                         skip(s) == IF s # <<>> /\ Head(s) \in {":", " "}
                                    THEN skip(Tail(s)) ELSE s
                         RECURSIVE upto(_)
                         upto(s) == IF s = <<>> \/ Head(s) = "<" THEN <<>>
                                    ELSE <<Head(s)>> \o upto(Tail(s))
                     IN  upto(skip(rest))
    IN  IF \E k \in 1..Len(page) : hit(page[k]) /\ cap(page[k]) # <<>>
        THEN Some(cap(page[CHOOSE k \in 1..Len(page) :
                             /\ hit(page[k]) /\ cap(page[k]) # <<>>
                             /\ \A j \in 1..(k - 1) : ~(hit(page[j]) /\ cap(page[j]) # <<>>)]))
        ELSE None

\* lines 77-80: what the loop stores with locals()[key] = match.group(1).strip()
Receita_matches(page) ==
    [razao_social |-> re_search_label(page, <<"R", "a", "z", "a", "o", " ", "S", "o", "c", "i", "a", "l">>),
     cidade |-> re_search_label(page, <<"M", "u", "n", "i", "c", "i", "p", "i", "o">>),
     uf |-> re_search_label(page, <<"U", "F">>),
     logradouro |-> re_search_label(page, <<"L", "o", "g", "r", "a", "d", "o", "u", "r", "o">>),
     numero |-> re_search_label(page, <<"N", "u", "m", "e", "r", "o">>),
     cep |-> re_search_label(page, <<"C", "E", "P">>)]

\* Lines 56-61 bind the local variables; the loop of lines 77-80 writes the
\* matches into the dict returned by locals(), which rebinds no local
\* variable of a function, so line 82 reads razao_social as bound on line 56.
scrape_receita_federal(cnpj, o) ==
    LET razao_social == <<"N", "a", "o", " ", "e", "n", "c", "o", "n", "t", "r", "a", "d", "a">>
        cidade == <<"N", "a", "o", " ", "e", "n", "c", "o", "n", "t", "r", "a", "d", "a">>
        uf == <<"N", "a", "o", " ", "e", "n", "c", "o", "n", "t", "r", "a", "d", "a">>
        logradouro == <<"N", "/", "A">>
        numero == <<"N", "/", "A">>
        cep == <<"N", "/", "A">>
    IN  CASE o.kind = "ok" ->
                IF \/ text_contains(o.body, <<"C", "N", "P", "J", " ", "n", "a", "o", " ", "f", "o", "i", " ", "e", "n", "c", "o", "n", "t", "r", "a", "d", "o">>)
                   \/ text_contains(o.body, <<"N", "A", "O", " ", "L", "O", "C", "A", "L", "I", "Z", "A", "D", "O">>)
                THEN None
                ELSE IF razao_social = <<"N", "a", "o", " ", "e", "n", "c", "o", "n", "t", "r", "a", "d", "a">>
                THEN None
                ELSE Some([cnpj |-> CNPJScraper_format_cnpj(cnpj),
                           razao_social |-> razao_social,
                           nome_fantasia |-> <<"N", "/", "A">>,
                           cidade |-> strip(upper(cidade)),
                           uf |-> uf,
                           logradouro |-> logradouro,
                           numero |-> numero,
                           cep |-> cep,
                           status |-> "encontrado",
                           fonte |-> "receita_federal"])
          [] o.kind = "status" -> None       \* line 98
          [] o.kind = "timeout" -> None      \* lines 100-102
          [] OTHER -> None                   \* lines 103-105

\* re.search(r'([A-Z]{2})', line): the first two adjacent capital letters
first_two_capitals(line) ==
    LET cap(ch) == \E i \in 1..26 : UpperLetters[i] = ch
        at(i) == cap(line[i]) /\ cap(line[i + 1])
    IN  IF \E i \in 1..(Len(line) - 1) : at(i)
        THEN LET i == CHOOSE i \in 1..(Len(line) - 1) :
                         at(i) /\ \A j \in 1..(i - 1) : ~at(j)
             IN  Some(<<line[i], line[i + 1]>>)
        ELSE None

\* lines 135-150: the loop over the lines, from line k on, st the locals
RECURSIVE Sintegra_scan(_, _, _)
Sintegra_scan(page, k, st) ==
    IF k > Len(page) THEN st
    ELSE LET line == page[k]
             value == IF contains(line, <<":">>) THEN strip(split_last(line, ":"))
                      ELSE <<"N", "/", "A">>
             m == first_two_capitals(line)
         IN  Sintegra_scan(page, k + 1,
                IF contains(upper(line), <<"R", "A", "Z", "A", "O", " ", "S", "O", "C", "I", "A", "L">>)
                THEN [st EXCEPT !.razao_social = value]
                ELSE IF contains(upper(line), <<"M", "U", "N", "I", "C", "I", "P", "I", "O">>)
                THEN [st EXCEPT !.cidade = value]
                ELSE IF contains(upper(line), <<"U", "F">>) /\ m # None
                THEN [st EXCEPT !.uf = the(m)]
                ELSE st)

scrape_sintegra(cnpj, o) ==
    CASE o.kind = "ok" ->
            IF \/ text_contains(o.body, <<"C", "N", "P", "J", " ", "N", "A", "O", " ", "L", "O", "C", "A", "L", "I", "Z", "A", "D", "O">>)
               \/ \E i \in 1..Len(o.body) : contains(lower(o.body[i]), <<"n", "a", "o", " ", "l", "o", "c", "a", "l", "i", "z", "a", "d", "o">>)
            THEN None
            ELSE LET st == Sintegra_scan(o.body, 1,
                              [razao_social |-> <<"N", "a", "o", " ", "e", "n", "c", "o", "n", "t", "r", "a", "d", "a">>,
                               cidade |-> <<"N", "a", "o", " ", "e", "n", "c", "o", "n", "t", "r", "a", "d", "a">>,
                               uf |-> <<"N", "a", "o", " ", "e", "n", "c", "o", "n", "t", "r", "a", "d", "a">>])
                 IN  IF st.razao_social # <<"N", "a", "o", " ", "e", "n", "c", "o", "n", "t", "r", "a", "d", "a">> /\ st.razao_social # <<"N", "/", "A">>
                     THEN Some([cnpj |-> CNPJScraper_format_cnpj(cnpj),
                                razao_social |-> st.razao_social,
                                nome_fantasia |-> <<"N", "/", "A">>,
                                cidade |-> strip(upper(st.cidade)),
                                uf |-> st.uf,
                                logradouro |-> <<"N", "/", "A">>,
                                numero |-> <<"N", "/", "A">>,
                                cep |-> <<"N", "/", "A">>,
                                status |-> "encontrado",
                                fonte |-> "sintegra"])
                     ELSE None                \* line 166
      [] o.kind = "status" -> None           \* line 166
      [] o.kind = "timeout" -> None          \* lines 168-170
      [] OTHER -> None                       \* lines 171-173

\* lines 196-207
Scraper_not_found(cnpj) ==
    [cnpj |-> CNPJScraper_format_cnpj(cnpj),
     razao_social |-> <<"N", "a", "o", " ", "e", "n", "c", "o", "n", "t", "r", "a", "d", "a">>, nome_fantasia |-> <<"N", "/", "A">>,
     cidade |-> <<"N", "a", "o", " ", "e", "n", "c", "o", "n", "t", "r", "a", "d", "a">>, uf |-> <<"N", "a", "o", " ", "e", "n", "c", "o", "n", "t", "r", "a", "d", "a">>,
     logradouro |-> <<"N", "/", "A">>, numero |-> <<"N", "/", "A">>, cep |-> <<"N", "/", "A">>,
     status |-> "nao_encontrado", fonte |-> "nenhuma"]

\* scrape_cnpj, lines 180-185: the cache check
Scraper_enter(cnpj, who) ==
    LET clean_cnpj == CNPJScraper_clean_cnpj(cnpj)
    IN  /\ cur' = cnpj
        /\ caller' = who
        /\ trace' = <<>>
        /\ IF clean_cnpj \in DOMAIN cache
           THEN /\ result' = Some(cache[clean_cnpj])
                /\ calls' = Append(calls, [who |-> who, cnpj |-> cnpj,
                                           ret |-> Some(cache[clean_cnpj]),
                                           raised |-> FALSE, trace |-> <<>>])
                /\ pc' = IF who = "batch" THEN "returned" ELSE "idle"
           ELSE /\ result' = None
                /\ calls' = calls
                /\ pc' = "src1"
        /\ UNCHANGED cache

\* a client calls scrape_cnpj(cnpj)
Scraper_scrape_cnpj ==
    /\ component = "CNPJScraper"
    /\ pc = "idle"
    /\ Len(calls) < MaxCalls
    /\ \E cnpj \in ResolveIds : Scraper_enter(cnpj, "client")
    /\ UNCHANGED <<component, wvars, nvars, bvars, dvars, frame>>

\* line 188: result = self.scrape_receita_federal(cnpj); frame keeps the
\* response the adapter got (line 51) until the next request
Scraper_src1 ==
    /\ component = "CNPJScraper"
    /\ pc = "src1"
    /\ \E o \in ReceitaOutcomes :
         /\ result' = scrape_receita_federal(cur, o)
         /\ pc' = IF result' = None THEN "sleep" ELSE "store"
         /\ frame' = [response |-> o]
    /\ trace' = Append(trace, Request("receita_federal", CNPJScraper_clean_cnpj(cur)))
    /\ UNCHANGED <<component, wvars, nvars, bvars, dvars, cache, cur, caller, calls>>

\* lines 190-192: sleep(1) before the fallback
Scraper_sleep ==
    /\ component = "CNPJScraper"
    /\ pc = "sleep"
    /\ trace' = Append(trace, Sleep("1"))
    /\ pc' = "src2"
    /\ UNCHANGED <<component, wvars, nvars, bvars, dvars, cache, cur, result, caller, calls, frame>>

\* lines 193-207: result = self.scrape_sintegra(cnpj), else the
\* not-found record
Scraper_src2 ==
    /\ component = "CNPJScraper"
    /\ pc = "src2"
    /\ \E o \in SintegraOutcomes :
         LET r == scrape_sintegra(cur, o)
         IN  result' = IF r = None THEN Some(Scraper_not_found(cur)) ELSE r
    /\ trace' = Append(trace, Request("sintegra", CNPJScraper_clean_cnpj(cur)))
    /\ pc' = "store"
    /\ frame' = NoFrame
    /\ UNCHANGED <<component, wvars, nvars, bvars, dvars, cache, cur, caller, calls>>

\* lines 224-225: self.cache[clean_cnpj] = result; return result
Scraper_store ==
    /\ component = "CNPJScraper"
    /\ pc = "store"
    /\ cache' = put(cache, CNPJScraper_clean_cnpj(cur), the(result))
    /\ calls' = Completed(result, FALSE, trace)
    /\ pc' = IF caller = "batch" THEN "returned" ELSE "idle"
    /\ UNCHANGED <<component, wvars, nvars, bvars, dvars, cur, result, trace, caller, frame>>

\* scrape_batch, lines 231-232
Scraper_scrape_batch ==
    /\ component = "CNPJScraper"
    /\ pc = "idle"
    /\ b_state = "none"
    /\ \E l \in BatchLists :
         /\ Len(calls) + Len(l) <= MaxCalls
         /\ b_list' = l
    /\ b_idx' = 0
    /\ b_results' = <<>>
    /\ b_progress' = <<>>
    /\ b_state' = "running"
    /\ pc' = "loop"
    /\ UNCHANGED <<component, wvars, nvars, dvars, cache, cur, result, trace, caller, calls, frame>>

\* lines 234-236: the next cnpj of the list
Scraper_batch_iter ==
    /\ component = "CNPJScraper"
    /\ pc = "loop"
    /\ b_idx < Len(b_list)
    /\ Scraper_enter(b_list[b_idx + 1], "batch")
    /\ UNCHANGED <<component, wvars, nvars, bvars, dvars, frame>>

\* lines 237-242: results.append(data); progress_callback(idx + 1, total);
\* sleep(2)
Scraper_batch_append ==
    /\ component = "CNPJScraper"
    /\ pc = "returned"
    /\ b_results' = Append(b_results, the(result))
    /\ b_progress' = Append(b_progress, <<b_idx + 1, Len(b_list)>>)
    /\ b_idx' = b_idx + 1
    /\ pc' = "loop"
    /\ UNCHANGED <<component, wvars, nvars, dvars, b_list, b_state, cache, cur, result,
                   trace, caller, calls, frame>>

\* line 259: return pd.DataFrame(results)
Scraper_batch_return ==
    /\ component = "CNPJScraper"
    /\ pc = "loop"
    /\ b_idx >= Len(b_list)
    /\ b_state' = "done"
    /\ pc' = "idle"
    /\ UNCHANGED <<component, wvars, nvars, dvars, b_list, b_idx, b_results, b_progress,
                   rvars_but_pc, frame>>

(***************************************************************************)
(* consulta_cnpj_massa.py: APILocalidades.  Each function takes the cache  *)
(* and the outcome o of the request it may make, and gives the new cache,  *)
(* the value returned and the lookups made (for the history).              *)
(***************************************************************************)
\* the bodies the locality source may answer with: a JSON array of objects
\* with a 'nome' each (here the array of those names)
LocalityBodies ==
    { << <<"S", "a", "o", " ", "P", "a", "u", "l", "o">>, <<"I", "t", "u">>, <<"I", "t", "u", "v", "e", "r", "a", "v", "a">> >>,
      << >> }
LocalityOutcomes == Failures \cup { Ok(b) : b \in LocalityBodies }

Lookup(uf, fetched, failed, ret) ==
    [uf |-> uf, fetched |-> fetched, failed |-> failed, ret |-> ret]

\* the variant of obter_municipios_por_uf that stores the empty list when the
\* fetch fails
obter_municipios_por_uf_caching_failure(cm, uf, o) ==
    IF uf \in DOMAIN cm
    THEN [cache |-> cm, ret |-> cm[uf], log |-> <<Lookup(uf, FALSE, FALSE, cm[uf])>>]
    ELSE IF o.kind = "ok"
    THEN LET municipios == [i \in 1..Len(o.body) |-> upper(o.body[i])]
         IN  [cache |-> put(cm, uf, municipios), ret |-> municipios,
              log |-> <<Lookup(uf, TRUE, FALSE, municipios)>>]
    ELSE [cache |-> put(cm, uf, <<>>), ret |-> <<>>,
          log |-> <<Lookup(uf, TRUE, TRUE, <<>>)>>]

\* obter_municipios_por_uf, lines 35-50
obter_municipios_por_uf(cm, uf, o) ==
    IF uf \in DOMAIN cm
    THEN [cache |-> cm, ret |-> cm[uf], log |-> <<Lookup(uf, FALSE, FALSE, cm[uf])>>]
    ELSE IF o.kind = "ok"
    THEN LET municipios == [i \in 1..Len(o.body) |-> upper(o.body[i])]
         IN  [cache |-> put(cm, uf, municipios), ret |-> municipios,
              log |-> <<Lookup(uf, TRUE, FALSE, municipios)>>]
    \* another status (line 50) or an exception (lines 47-50)
    ELSE [cache |-> cm, ret |-> <<>>, log |-> <<Lookup(uf, TRUE, TRUE, <<>>)>>]

\* x in list
is_in(x, list) == \E v \in {x}, l \in {list} : \E i \in 1..Len(l) : l[i] = v

\* the first element of list whose flag is set, or None
first_such(list, flags) ==
    IF \E i \in 1..Len(list) : flags[i]
    THEN Some(list[CHOOSE i \in 1..Len(list) :
                     flags[i] /\ \A j \in 1..(i - 1) : ~flags[j]])
    ELSE None

validar_municipio(cm, municipio, uf, o) ==
    LET r == obter_municipios_por_uf(cm, uf, o)
    IN  [cache |-> r.cache, ret |-> is_in(upper(municipio), r.ret), log |-> r.log]

\* the variant of normalizar_municipio without the test of lines 61-62
normalizar_municipio_first_match(cm, municipio, uf, o) ==
    LET r == obter_municipios_por_uf(cm, uf, o)
        municipio_upper == upper(municipio)
        match(mun) == contains(mun, municipio_upper) \/ contains(municipio_upper, mun)
    IN  [cache |-> r.cache,
         ret |-> first_such(r.ret, [i \in 1..Len(r.ret) |-> match(r.ret[i])]),
         log |-> r.log]

\* normalizar_municipio, lines 59-69
normalizar_municipio(cm, municipio, uf, o) ==
    LET r == obter_municipios_por_uf(cm, uf, o)
        municipio_upper == upper(municipio)
        match(mun) == contains(mun, municipio_upper) \/ contains(municipio_upper, mun)
    IN  [cache |-> r.cache,
         ret |-> IF is_in(municipio_upper, r.ret) THEN Some(municipio_upper)
                 ELSE first_such(r.ret, [i \in 1..Len(r.ret) |-> match(r.ret[i])]),
         log |-> r.log]

(***************************************************************************)
(* consulta_cnpj_massa.py: ConsultorCNPJ.                                  *)
(***************************************************************************)
BrasilApiBodies ==
    { [razao_social |-> "ACME LTDA", nome_fantasia |-> "ACME",
       municipio |-> <<"S", "A", "O", " ", "P", "A", "U", "L", "O">>, uf |-> "SP", logradouro |-> "RUA A",
       numero |-> "10", bairro |-> "SE", cep |-> "01000000",
       cnae_fiscal_descricao |-> "COMERCIO", cnae_fiscal |-> "4711",
       natureza_juridica_descricao |-> "LTDA", status |-> "ATIVA",
       data_situacao_cadastral |-> "2001-01-01"],
      [razao_social |-> "BETA SA", municipio |-> <<"X", "i", "q", "u", "e">>, uf |-> "SP",
       status |-> "BAIXADA"],
      \* a region code and no municipality, or an empty one
      [razao_social |-> "GAMA ME", uf |-> "SP"],
      [razao_social |-> "DELTA ME", municipio |-> <<>>, uf |-> "SP",
       status |-> "ATIVA"],
      [other |-> "x"] }
BrasilApiOutcomes == Failures \cup { Ok(b) : b \in BrasilApiBodies }

\* now is datetime.now(): the number of resolves completed before this one
consultar_brasilapi(c, cnpj, o, now) ==
    LET cnpj_limpo == ConsultorCNPJ_cnpj_limpo(cnpj)
        req == <<Request("brasilapi", cnpj_limpo)>>
    IN  IF cnpj_limpo \in DOMAIN c
        THEN [cache |-> c, ret |-> Some(c[cnpj_limpo]), raised |-> FALSE, trace |-> <<>>]
        ELSE CASE o.kind = "ok" ->
                    LET data == o.body
                        resultado ==
                          [cnpj |-> cnpj,
                           razao_social |-> get(data, "razao_social", "N/A"),
                           nome_fantasia |-> get(data, "nome_fantasia", "N/A"),
                           municipio |-> get(data, "municipio", <<"N", "/", "A">>),
                           uf |-> get(data, "uf", "N/A"),
                           logradouro |-> get(data, "logradouro", "N/A"),
                           numero |-> get(data, "numero", "N/A"),
                           complemento |-> get(data, "complemento", "N/A"),
                           bairro |-> get(data, "bairro", "N/A"),
                           cep |-> get(data, "cep", "N/A"),
                           cnae |-> get(data, "cnae_fiscal_descricao", "N/A"),
                           cnae_codigo |-> get(data, "cnae_fiscal", "N/A"),
                           natureza_juridica |-> get(data, "natureza_juridica_descricao", "N/A"),
                           status |-> IF get(data, "status", "None") = "ATIVA"
                                      THEN "ATIVO" ELSE "INATIVO",
                           data_situacao |-> get(data, "data_situacao_cadastral", "N/A"),
                           data_consulta |-> now]
                    IN  [cache |-> put(c, cnpj_limpo, resultado), ret |-> Some(resultado),
                         raised |-> FALSE, trace |-> req]
               \* another status: line 117
               [] o.kind = "status" ->
                    [cache |-> c, ret |-> None, raised |-> FALSE, trace |-> req]
               \* a requests.exceptions.RequestException (Timeout,
               \* ConnectionError, the JSONDecodeError of response.json()):
               \* lines 114-117
               [] o.kind \in {"timeout", "conn_error", "bad_json"} ->
                    [cache |-> c, ret |-> None, raised |-> FALSE, trace |-> req]
               \* a JSON body that is no object: data.get raises
               \* AttributeError, which line 114 does not catch (nor does it
               \* catch the ValueError that response.json() raises on an
               \* undecodable body with requests older than 2.27)
               [] OTHER ->
                    [cache |-> c, ret |-> None, raised |-> TRUE, trace |-> req]

\* lines 124-141
Consultor_erro_consulta(cnpj, now) ==
    [cnpj |-> cnpj, razao_social |-> "N/A", nome_fantasia |-> "N/A",
     municipio |-> <<"N", "/", "A">>, uf |-> "N/A", logradouro |-> "N/A", numero |-> "N/A",
     complemento |-> "N/A", bairro |-> "N/A", cep |-> "N/A", cnae |-> "N/A",
     cnae_codigo |-> "N/A", natureza_juridica |-> "N/A",
     status |-> "ERRO_CONSULTA", data_situacao |-> "N/A", data_consulta |-> now]

consultar_cnpj(c, cnpj, o, now) ==
    LET r == consultar_brasilapi(c, cnpj, o, now)
    IN  IF ~r.raised /\ r.ret = None
        THEN [r EXCEPT !.ret = Some(Consultor_erro_consulta(cnpj, now))]
        ELSE r

ValidUFs ==
    {"AC", "AL", "AP", "AM", "BA", "CE", "DF", "ES", "GO", "MA", "MT", "MS", "MG",
     "PA", "PB", "PR", "PE", "PI", "RJ", "RN", "RS", "RO", "RR", "SC", "SP", "SE",
     "TO"}

validar_localizacao(cm, municipio, uf, o) ==
    IF uf \notin ValidUFs
    THEN [cache |-> cm, ok |-> FALSE, value |-> <<"U", "F", "_", "I", "N", "V", "A", "L", "I", "D", "O">>, log |-> <<>>]
    ELSE LET r == normalizar_municipio(cm, municipio, uf, o)
         IN  \* if municipio_normalizado: neither None nor ''
             IF r.ret # None /\ the(r.ret) # <<>>
             THEN [cache |-> r.cache, ok |-> TRUE, value |-> the(r.ret), log |-> r.log]
             ELSE [cache |-> r.cache, ok |-> FALSE, value |-> municipio, log |-> r.log]

(***************************************************************************)
(* consulta_cnpj_massa.py: AnalisadorDadosEmpresa.                         *)
(***************************************************************************)
\* _mapear_regioes_metropolitanas, in the order of the dict
regioes_metropo ==
    << [regiao |-> "RM_SAOPAULO", uf |-> "SP",
        municipios |-> << <<"S", "A", "O", " ", "P", "A", "U", "L", "O">>, <<"G", "U", "A", "R", "U", "L", "H", "O", "S">>, <<"C", "A", "M", "P", "I", "N", "A", "S">>, <<"S", "A", "N", "T", "O", " ", "A", "N", "D", "R", "E">>,
                          <<"S", "Ã", "O", " ", "B", "E", "R", "N", "A", "R", "D", "O", " ", "D", "O", " ", "C", "A", "M", "P", "O">>, <<"D", "I", "A", "D", "E", "M", "A">>, <<"M", "A", "U", "A">>, <<"O", "S", "A", "S", "C", "O">> >>],
       [regiao |-> "RM_RIO", uf |-> "RJ",
        municipios |-> << <<"R", "I", "O", " ", "D", "E", " ", "J", "A", "N", "E", "I", "R", "O">>, <<"N", "I", "T", "E", "R", "O", "I">>, <<"S", "A", "O", " ", "G", "O", "N", "C", "A", "L", "O">>,
                          <<"D", "U", "Q", "U", "E", " ", "D", "E", " ", "C", "A", "X", "I", "A", "S">>, <<"N", "O", "V", "A", " ", "I", "G", "U", "A", "C", "U">>, <<"S", "Ã", "O", " ", "J", "O", "Ã", "O", " ", "D", "E", " ", "M", "E", "R", "I", "T", "I">>,
                          <<"N", "I", "L", "Ó", "P", "O", "L", "I", "S">> >>],
       [regiao |-> "RM_BELO_HORIZONTE", uf |-> "MG",
        municipios |-> << <<"B", "E", "L", "O", " ", "H", "O", "R", "I", "Z", "O", "N", "T", "E">>, <<"C", "O", "N", "T", "A", "G", "E", "M">>, <<"B", "E", "T", "I", "M">>, <<"S", "A", "B", "A", "R", "A">>,
                          <<"N", "O", "V", "A", " ", "L", "I", "M", "A">>, <<"B", "R", "U", "M", "A", "D", "I", "N", "H", "O">>, <<"R", "I", "B", "E", "I", "R", "Ã", "O", " ", "D", "A", "S", " ", "N", "E", "V", "E", "S">> >>],
       [regiao |-> "RM_BRASILIA", uf |-> "DF",
        municipios |-> << <<"B", "R", "A", "S", "I", "L", "I", "A">>, <<"T", "A", "G", "U", "A", "T", "I", "N", "G", "A">>, <<"C", "E", "I", "L", "A", "N", "D", "I", "A">>, <<"G", "U", "A", "R", "A">> >>],
       [regiao |-> "RM_CURITIBA", uf |-> "PR",
        municipios |-> << <<"C", "U", "R", "I", "T", "I", "B", "A">>, <<"A", "R", "A", "U", "C", "A", "R", "I", "A">>, <<"C", "A", "M", "P", "O", " ", "L", "A", "R", "G", "O">>, <<"C", "O", "L", "O", "M", "B", "O">>,
                          <<"P", "I", "N", "H", "A", "I", "S">> >>],
       [regiao |-> "RM_PORTO_ALEGRE", uf |-> "RS",
        municipios |-> << <<"P", "O", "R", "T", "O", " ", "A", "L", "E", "G", "R", "E">>, <<"V", "I", "A", "M", "A", "O">>, <<"C", "A", "N", "O", "A", "S">>, <<"G", "R", "A", "V", "A", "T", "A", "Í">>,
                          <<"A", "L", "V", "O", "R", "A", "D", "A">> >>],
       [regiao |-> "RM_SALVADOR", uf |-> "BA",
        municipios |-> << <<"S", "A", "L", "V", "A", "D", "O", "R">>, <<"L", "A", "U", "R", "O", " ", "D", "E", " ", "F", "R", "E", "I", "T", "A", "S">>, <<"C", "A", "M", "A", "Ç", "A", "R", "I">>,
                          <<"S", "I", "M", "Õ", "E", "S", " ", "F", "I", "L", "H", "O">> >>],
       [regiao |-> "RM_RECIFE", uf |-> "PE",
        municipios |-> << <<"R", "E", "C", "I", "F", "E">>, <<"J", "A", "B", "O", "A", "T", "A", "O", " ", "D", "O", "S", " ", "G", "U", "A", "R", "A", "R", "A", "P", "E", "S">>, <<"O", "L", "I", "N", "D", "A">>,
                          <<"P", "A", "U", "L", "I", "S", "T", "A">> >>],
       [regiao |-> "RM_FORTALEZA", uf |-> "CE",
        municipios |-> << <<"F", "O", "R", "T", "A", "L", "E", "Z", "A">>, <<"M", "A", "R", "A", "C", "A", "N", "A", "Ú">>, <<"C", "A", "U", "C", "A", "I", "A">>, <<"A", "Q", "U", "I", "R", "A", "Z">> >>],
       [regiao |-> "RM_MANAUS", uf |-> "AM",
        municipios |-> << <<"M", "A", "N", "A", "U", "S">>, <<"I", "T", "A", "C", "O", "A", "T", "I", "A", "R", "A">>, <<"I", "R", "A", "N", "D", "U", "B", "A">> >> ] >>

\* the variant of identificar_regiao_metro without the test of line 219
identificar_regiao_metro_any_uf(municipio, uf) ==
    LET municipio_upper == upper(municipio)
        match(mun) == contains(mun, municipio_upper) \/ contains(municipio_upper, mun)
        hit(dados) == \E i \in 1..Len(dados.municipios) : match(dados.municipios[i])
        r == first_such(regioes_metropo,
                        [k \in 1..Len(regioes_metropo) |-> hit(regioes_metropo[k])])
    IN  IF r = None THEN "None" ELSE the(r).regiao

\* the region's name, or "None"
identificar_regiao_metro(municipio, uf) ==
    LET municipio_upper == upper(municipio)
        match(mun) == contains(mun, municipio_upper) \/ contains(municipio_upper, mun)
        hit(dados) == dados.uf = uf /\ \E i \in 1..Len(dados.municipios) :
                                           match(dados.municipios[i])
        r == first_such(regioes_metropo,
                        [k \in 1..Len(regioes_metropo) |-> hit(regioes_metropo[k])])
    IN  IF r = None THEN "None" ELSE the(r).regiao

\* the input sheet: the expected region and municipality of each identifier
ExpectedUF(cnpj) ==
    IF cnpj = IdDisplay THEN "SP" ELSE IF cnpj = IdCanon THEN "RJ" ELSE "sp"
ExpectedMunicipio(cnpj) ==
    IF cnpj = IdDisplay THEN <<"S", "a", "o", " ", "P", "a", "u", "l", "o">> ELSE IF cnpj = IdCanon THEN <<"N", "/", "A">>
    ELSE <<"I", "t", "u">>
Row(cnpj) ==
    [CNPJ |-> cnpj, UF |-> ExpectedUF(cnpj), Municipio |-> ExpectedMunicipio(cnpj)]

\* no request is made: the outcome is not read
NoRequest == Failure("none")

\* the outcomes of the request a call may make: none when it is served from
\* the cache (or never reaches the request)
RegistryOutcomesFor(c, cnpj) ==
    IF ConsultorCNPJ_cnpj_limpo(cnpj) \in DOMAIN c THEN {NoRequest}
    ELSE BrasilApiOutcomes
LocalityOutcomesFor(cm, uf) ==
    IF uf \in DOMAIN cm THEN {NoRequest} ELSE LocalityOutcomes
ValidarOutcomesFor(cm, uf) ==
    IF uf \notin ValidUFs THEN {NoRequest} ELSE LocalityOutcomesFor(cm, uf)

\* a client calls consultar_cnpj(cnpj)
Consultor_consultar_cnpj ==
    /\ component = "ConsultorCNPJ"
    /\ pc = "idle"
    /\ Len(calls) < MaxCalls
    /\ \E cnpj \in ResolveIds :
         \E o \in RegistryOutcomesFor(cache, cnpj) :
           LET r == consultar_cnpj(cache, cnpj, o, Len(calls))
           IN  /\ cache' = r.cache
               /\ calls' = Append(calls, [who |-> "client", cnpj |-> cnpj,
                                          ret |-> r.ret, raised |-> r.raised,
                                          trace |-> r.trace])
    /\ UNCHANGED <<component, wvars, nvars, bvars, dvars, pc, cur, result, trace, caller,
                   frame>>

\* processar_lote, lines 245-246
Analisador_processar_lote ==
    /\ component = "ConsultorCNPJ"
    /\ pc = "idle"
    /\ b_state = "none"
    /\ \E l \in BatchLists :
         /\ Len(calls) + Len(l) <= MaxCalls
         /\ b_list' = [i \in 1..Len(l) |-> Row(l[i])]
    /\ b_idx' = 0
    /\ b_results' = <<>>
    /\ b_progress' = <<>>
    /\ b_state' = "running"
    /\ pc' = "loop"
    /\ UNCHANGED <<component, wvars, nvars, dvars, rvars_but_pc, frame>>

\* lines 248-255: dados_api = self.consultor.consultar_cnpj(cnpj); an
\* exception leaves the loop and processar_lote, and no DataFrame is returned
Analisador_lote_consultar ==
    /\ component = "ConsultorCNPJ"
    /\ pc = "loop"
    /\ b_idx < Len(b_list)
    /\ LET cnpj == b_list[b_idx + 1].CNPJ
       IN  \E o \in RegistryOutcomesFor(cache, cnpj) :
             LET r == consultar_cnpj(cache, cnpj, o, Len(calls))
             IN  /\ cache' = r.cache
                 /\ calls' = Append(calls, [who |-> "batch", cnpj |-> cnpj,
                                            ret |-> r.ret, raised |-> r.raised,
                                            trace |-> r.trace])
                 /\ result' = r.ret
                 /\ IF r.raised
                    THEN b_state' = "raised" /\ pc' = "idle"
                    ELSE b_state' = b_state /\ pc' = "validar_uf"
    /\ UNCHANGED <<component, wvars, nvars, dvars, b_list, b_idx, b_results, b_progress,
                   cur, trace, caller, frame>>

\* lines 257-262: validacao_uf, uf_normalizado = validar_localizacao(...)
Analisador_lote_validar_uf ==
    /\ component = "ConsultorCNPJ"
    /\ pc = "validar_uf"
    /\ LET dados_api == the(result)
       IN  \E o \in ValidarOutcomesFor(cache_municipios, dados_api.uf) :
             LET v == validar_localizacao(cache_municipios, dados_api.municipio,
                                          dados_api.uf, o)
             IN  /\ cache_municipios' = v.cache
                 /\ d_calls' = d_calls \o v.log
                 /\ frame' = [validacao_uf |-> v.ok, uf_normalizado |-> v.value]
    /\ pc' = "validar_municipio"
    /\ UNCHANGED <<component, wvars, nvars, bvars, cities_cache, d_last, cache, cur, result, trace,
                   caller, calls>>

\* lines 264-302: the second validation, the region, the match flags and
\* resultados.append(resultado)
Analisador_lote_validar_municipio ==
    /\ component = "ConsultorCNPJ"
    /\ pc = "validar_municipio"
    /\ LET row == b_list[b_idx + 1]
           dados_api == the(result)
           uf_api == dados_api.uf
           again == frame.validacao_uf /\ dados_api.municipio # <<"N", "/", "A">>
       IN  \E o \in (IF again THEN ValidarOutcomesFor(cache_municipios, uf_api)
                     ELSE {NoRequest}) :
             LET v == validar_localizacao(cache_municipios, dados_api.municipio,
                                          uf_api, o)
                 validacao_municipio == again /\ v.ok
                 municipio_api == IF again /\ v.value # <<>> THEN v.value
                                  ELSE dados_api.municipio
                 regiao_metro == IF validacao_municipio
                                 THEN identificar_regiao_metro(municipio_api, uf_api)
                                 ELSE "None"
                 resultado ==
                   [CNPJ |-> row.CNPJ,
                    UF_Origem |-> row.UF,
                    Municipio_Origem |-> row.Municipio,
                    Razao_Social |-> dados_api.razao_social,
                    Nome_Fantasia |-> dados_api.nome_fantasia,
                    Municipio_API |-> municipio_api,
                    UF_API |-> uf_api,
                    Validacao_Municipio |-> IF validacao_municipio THEN "SIM" ELSE "NAO",
                    Regiao_Metropolitana |-> IF regiao_metro # "None" THEN regiao_metro
                                             ELSE "N/A",
                    Match_UF |-> IF row.UF = uf_api THEN "SIM" ELSE "NAO",
                    Match_Municipio |->
                        IF contains(upper(municipio_api), upper(row.Municipio))
                        THEN "SIM" ELSE "NAO",
                    Logradouro |-> dados_api.logradouro,
                    Numero |-> dados_api.numero,
                    Bairro |-> dados_api.bairro,
                    CEP |-> dados_api.cep,
                    CNAE |-> dados_api.cnae,
                    CNAE_Codigo |-> dados_api.cnae_codigo,
                    Natureza_Juridica |-> dados_api.natureza_juridica,
                    Status |-> dados_api.status,
                    Data_Situacao |-> dados_api.data_situacao,
                    Data_Consulta |-> dados_api.data_consulta]
             IN  /\ cache_municipios' = IF again THEN v.cache ELSE cache_municipios
                 /\ d_calls' = IF again THEN d_calls \o v.log ELSE d_calls
                 /\ b_results' = Append(b_results, resultado)
    /\ b_idx' = b_idx + 1
    /\ pc' = "loop"
    /\ UNCHANGED <<component, wvars, nvars, cities_cache, d_last, b_list, b_progress, b_state, cache,
                   cur, result, trace, caller, calls, frame>>

\* line 304: return pd.DataFrame(resultados)
Analisador_lote_return ==
    /\ component = "ConsultorCNPJ"
    /\ pc = "loop"
    /\ b_idx >= Len(b_list)
    /\ b_state' = "done"
    /\ pc' = "idle"
    /\ UNCHANGED <<component, wvars, nvars, dvars, b_list, b_idx, b_results, b_progress,
                   rvars_but_pc, frame>>
(***************************************************************************)
(* The locality directories and the validators on their own:               *)
(* APILocalidades and ConsultorCNPJ.validar_localizacao                     *)
(* (consulta_cnpj_massa.py), LocalizationAPI (localization_api.py).        *)
(***************************************************************************)
MaxLookups == 3     \* directory lookups in one run
\* the argument uf: two region codes and a string that is none
DirUFs == {"SP", "RJ", "XX"}
\* the argument municipio / city
DirNames == { <<"I", "t", "u", "v", "e", "r", "a", "v", "a">>, <<"i", "t", "u">>, <<"S", "a", "o">>, <<"I", "t", "u", "p", "e", "v", "a">>, <<"X", "i", "q", "u", "e">>, <<>> }

\* one call of a directory, validator or classifier function: its arguments,
\* the lookups it made and what it returned
Call(op, uf, name, log, ret) ==
    [op |-> op, uf |-> uf, name |-> name, log |-> log, ret |-> ret]
NoCall == Call("none", "", <<>>, <<>>, <<>>)

\* the list a call got from the directory
ListOf(log) == IF log = <<>> THEN <<>> ELSE log[Len(log)].ret

\* the variant of get_cities_by_uf that does not look into the cache
get_cities_by_uf_refetching(cc, uf, o) ==
    IF o.kind = "ok"
    THEN LET cities == [i \in 1..Len(o.body) |-> o.body[i]]
         IN  [cache |-> put(cc, uf, cities), ret |-> cities,
              log |-> <<Lookup(uf, TRUE, FALSE, cities)>>]
    ELSE [cache |-> cc, ret |-> <<>>, log |-> <<Lookup(uf, TRUE, TRUE, <<>>)>>]

\* get_cities_by_uf, lines 101-117: raise_for_status turns another status
\* into an exception; every exception is caught and gives []
get_cities_by_uf(cc, uf, o) ==
    IF uf \in DOMAIN cc
    THEN [cache |-> cc, ret |-> cc[uf], log |-> <<Lookup(uf, FALSE, FALSE, cc[uf])>>]
    ELSE IF o.kind = "ok"
    THEN LET cities == [i \in 1..Len(o.body) |-> o.body[i]]
         IN  [cache |-> put(cc, uf, cities), ret |-> cities,
              log |-> <<Lookup(uf, TRUE, FALSE, cities)>>]
    ELSE [cache |-> cc, ret |-> <<>>, log |-> <<Lookup(uf, TRUE, TRUE, <<>>)>>]

\* _init_metropolitan_regions, lines 23-95
metropolitan_regions ==
       "SP" :> [name |-> "RMSP - Regiao Metropolitana de Sao Paulo",
          cities |->
           << <<"S", "a", "o", " ", "P", "a", "u", "l", "o">>, <<"G", "u", "a", "r", "u", "l", "h", "o", "s">>, <<"C", "a", "m", "p", "i", "n", "a", "s">>, <<"S", "a", "n", "t", "o", "s">>,
              <<"S", "o", "r", "o", "c", "a", "b", "a">>, <<"O", "s", "a", "s", "c", "o">>, <<"S", "a", "n", "t", "o", " ", "A", "n", "d", "r", "e">>,
              <<"S", "a", "o", " ", "B", "e", "r", "n", "a", "r", "d", "o", " ", "d", "o", " ", "C", "a", "m", "p", "o">>, <<"S", "a", "o", " ", "C", "a", "e", "t", "a", "n", "o", " ", "d", "o", " ", "S", "u", "l">>, <<"D", "i", "a", "d", "e", "m", "a">>,
              <<"M", "o", "g", "i", " ", "d", "a", "s", " ", "C", "r", "u", "z", "e", "s">>, <<"S", "u", "z", "a", "n", "o">>, <<"R", "i", "b", "e", "i", "r", "a", "o", " ", "P", "i", "r", "e", "s">>,
              <<"R", "i", "o", " ", "G", "r", "a", "n", "d", "e", " ", "d", "a", " ", "S", "e", "r", "r", "a">>, <<"E", "m", "b", "u", "-", "G", "u", "a", "c", "u">>, <<"E", "m", "b", "u">>,
              <<"I", "t", "a", "p", "e", "c", "e", "r", "i", "c", "a", " ", "d", "a", " ", "S", "e", "r", "r", "a">>, <<"J", "u", "q", "u", "i", "t", "i", "b", "a">>,
              <<"V", "a", "r", "g", "e", "m", " ", "G", "r", "a", "n", "d", "e", " ", "P", "a", "u", "l", "i", "s", "t", "a">>, <<"C", "o", "t", "i", "a">>, <<"I", "t", "a", "p", "e", "v", "i">>, <<"J", "a", "n", "d", "i", "r", "a">>,
              <<"P", "i", "r", "a", "p", "o", "r", "a", " ", "d", "o", " ", "B", "o", "m", " ", "J", "e", "s", "u", "s">>, <<"S", "a", "n", "t", "a", "n", "a", " ", "d", "e", " ", "P", "a", "r", "n", "a", "i", "b", "a">>, <<"C", "a", "j", "a", "m", "a", "r">>,
              <<"C", "a", "b", "r", "e", "u", "v", "a">>, <<"I", "t", "u">>, <<"S", "a", "l", "t", "o">>, <<"M", "a", "i", "r", "i", "n", "q", "u", "e">>, <<"A", "r", "a", "c", "a", "r", "i", "g", "u", "a", "m", "a">>,
              <<"P", "i", "e", "d", "a", "d", "e">>, <<"T", "a", "p", "i", "r", "a", "t", "i", "b", "a">>, <<"I", "p", "e", "u", "n", "a">> >>]
    @@ "RJ" :> [name |-> "RMRJ - Regiao Metropolitana do Rio de Janeiro",
          cities |->
           << <<"R", "i", "o", " ", "d", "e", " ", "J", "a", "n", "e", "i", "r", "o">>, <<"N", "i", "t", "e", "r", "o", "i">>, <<"S", "a", "o", " ", "G", "o", "n", "c", "a", "l", "o">>,
              <<"D", "u", "q", "u", "e", " ", "d", "e", " ", "C", "a", "x", "i", "a", "s">>, <<"N", "o", "v", "a", " ", "I", "g", "u", "a", "c", "u">>, <<"S", "a", "o", " ", "J", "o", "a", "o", " ", "d", "e", " ", "M", "e", "r", "i", "t", "i">>,
              <<"N", "i", "l", "l", "o", "p", "o", "l", "i", "s">>, <<"M", "e", "s", "q", "u", "i", "t", "a">>, <<"M", "a", "g", "é">>, <<"M", "a", "n", "g", "a", "r", "a", "t", "i", "b", "a">>,
              <<"I", "t", "a", "g", "u", "a", "i">>, <<"S", "e", "r", "o", "p", "e", "d", "i", "c", "a">>, <<"J", "a", "p", "e", "r", "i">>, <<"M", "a", "r", "i", "c", "a">>,
              <<"C", "a", "c", "h", "o", "e", "i", "r", "a", "s", " ", "d", "e", " ", "M", "a", "c", "a", "c", "u">>, <<"G", "u", "a", "p", "i", "m", "i", "r", "i", "m">>, <<"T", "a", "n", "g", "u", "á">>,
              <<"S", "a", "o", " ", "G", "o", "n", "c", "a", "l", "o">> >>]
    @@ "MG" :> [name |-> "RMBH - Regiao Metropolitana de Belo Horizonte",
          cities |->
           << <<"B", "e", "l", "o", " ", "H", "o", "r", "i", "z", "o", "n", "t", "e">>, <<"C", "o", "n", "t", "a", "g", "e", "m">>, <<"B", "e", "t", "i", "m">>,
              <<"R", "i", "b", "e", "i", "r", "ã", "o", " ", "d", "a", "s", " ", "N", "e", "v", "e", "s">>, <<"S", "a", "n", "t", "a", " ", "L", "u", "z", "i", "a">>, <<"V", "e", "s", "p", "a", "s", "i", "a", "n", "o">>,
              <<"S", "a", "r", "z", "e", "d", "o">>, <<"S", "e", "t", "e", " ", "L", "a", "g", "o", "a", "s">>, <<"D", "i", "v", "i", "n", "o", "p", "o", "l", "i", "s">>,
              <<"C", "o", "n", "s", "e", "l", "h", "e", "i", "r", "o", " ", "L", "a", "f", "a", "i", "e", "t", "e">>, <<"I", "t", "a", "b", "i", "r", "a">> >>]
    @@ "BA" :> [name |-> "RMSB - Regiao Metropolitana de Salvador",
          cities |->
           << <<"S", "a", "l", "v", "a", "d", "o", "r">>, <<"C", "a", "m", "a", "ç", "a", "r", "i">>, <<"L", "a", "u", "r", "o", " ", "d", "e", " ", "F", "r", "e", "i", "t", "a", "s">>, <<"S", "i", "m", "o", "e", "s", " ", "F", "i", "l", "h", "o">>,
              <<"D", "i", "a", "s", " ", "d", "'", "A", "v", "i", "l", "a">>, <<"M", "a", "t", "a", " ", "d", "e", " ", "S", "a", "o", " ", "J", "o", "a", "o">>, <<"P", "o", "j", "u", "c", "a">> >>]
    @@ "PE" :> [name |-> "RMR - Regiao Metropolitana do Recife",
          cities |->
           << <<"R", "e", "c", "i", "f", "e">>, <<"J", "a", "b", "o", "a", "t", "a", "o", " ", "d", "o", "s", " ", "G", "u", "a", "r", "a", "r", "a", "p", "e", "s">>, <<"C", "a", "m", "a", "r", "a", "g", "i", "b", "e">>,
              <<"O", "l", "i", "n", "d", "a">>, <<"P", "a", "u", "l", "i", "s", "t", "a">>, <<"I", "t", "a", "p", "i", "s", "s", "u", "m", "a">>, <<"I", "g", "a", "r", "a", "s", "s", "u">>,
              <<"A", "r", "a", "ç", "o", "i", "a", "b", "a">>, <<"M", "o", "r", "e", "n", "o">>, <<"C", "a", "b", "o", " ", "d", "e", " ", "S", "a", "n", "t", "o", " ", "A", "g", "o", "s", "t", "i", "n", "h", "o">> >>]
    @@ "SC" :> [name |-> "RMGV - Regiao Metropolitana do Vale do Itajai",
          cities |->
           << <<"B", "l", "u", "m", "e", "n", "a", "u">>, <<"B", "r", "u", "s", "q", "u", "e">>, <<"G", "a", "s", "p", "a", "r">>, <<"B", "o", "t", "u", "v", "e", "r", "á">>, <<"G", "u", "a", "b", "i", "r", "u", "b", "a">>,
              <<"I", "n", "d", "a", "i", "a", "l">>, <<"P", "o", "m", "e", "r", "o", "d", "e">>, <<"R", "o", "d", "e", "i", "o">>, <<"T", "i", "m", "b", "ó">> >>]
    @@ "RS" :> [name |-> "RMPA - Regiao Metropolitana de Porto Alegre",
          cities |->
           << <<"P", "o", "r", "t", "o", " ", "A", "l", "e", "g", "r", "e">>, <<"V", "i", "a", "m", "a", "o">>, <<"A", "l", "v", "o", "r", "a", "d", "a">>, <<"G", "r", "a", "v", "a", "t", "a", "í">>,
              <<"C", "a", "c", "h", "o", "e", "i", "r", "i", "n", "h", "a">>, <<"C", "a", "n", "o", "a", "s">>, <<"E", "s", "t", "e", "i", "o">>, <<"S", "a", "p", "u", "c", "a", "i", "a", " ", "d", "o", " ", "S", "u", "l">>,
              <<"S", "ã", "o", " ", "L", "e", "o", "p", "o", "l", "d", "o">>, <<"N", "o", "v", "o", " ", "H", "a", "m", "b", "u", "r", "g", "o">>, <<"P", "a", "r", "a", "c", "a", "m", "b", "i">> >>]
    @@ "PR" :> [name |-> "RMC - Regiao Metropolitana de Curitiba",
          cities |->
           << <<"C", "u", "r", "i", "t", "i", "b", "a">>, <<"S", "a", "o", " ", "J", "o", "s", "e", " ", "d", "o", "s", " ", "P", "i", "n", "h", "a", "i", "s">>, <<"A", "l", "m", "i", "r", "a", "n", "t", "e", " ", "T", "a", "m", "a", "n", "d", "a", "r", "é">>,
              <<"A", "r", "a", "ç", "a", "t", "u", "b", "a">>, <<"A", "r", "a", "u", "c", "á", "r", "i", "a">>, <<"B", "o", "c", "a", "i", "u", "v", "a", " ", "d", "o", " ", "S", "u", "l">>,
              <<"C", "a", "m", "p", "i", "n", "a", " ", "G", "r", "a", "n", "d", "e", " ", "d", "o", " ", "S", "u", "l">>, <<"C", "o", "l", "o", "m", "b", "o">>, <<"C", "o", "n", "t", "e", "n", "d", "a">>,
              <<"F", "a", "z", "e", "n", "d", "a", " ", "R", "i", "o", " ", "G", "r", "a", "n", "d", "e">>, <<"I", "t", "a", "p", "e", "r", "u", "ç", "u">>, <<"M", "a", "n", "d", "i", "r", "i", "t", "u", "b", "a">>,
              <<"P", "i", "r", "a", "q", "u", "a", "r", "a">>, <<"Q", "u", "a", "t", "r", "o", " ", "B", "a", "r", "r", "a", "s">>, <<"R", "i", "o", " ", "B", "r", "a", "n", "c", "o", " ", "d", "o", " ", "S", "u", "l">>,
              <<"T", "u", "n", "a", "s", " ", "d", "o", " ", "P", "a", "r", "a", "n", "á">> >>]

\* line 144: [c.upper().strip() for c in region_data['cities']], for each
\* configured region code
cities_normalized_of ==
    [uf \in DOMAIN metropolitan_regions |->
        [i \in 1..Len(metropolitan_regions[uf].cities) |->
            strip(upper(metropolitan_regions[uf].cities[i]))]]

\* is_metropolitan_area, lines 140-150: (bool, name or None)
is_metropolitan_area(uf, city) ==
    IF uf \notin DOMAIN metropolitan_regions
    THEN <<FALSE, "None">>
    ELSE LET region_data == metropolitan_regions[uf]
             cities_normalized == cities_normalized_of[uf]
             city_normalized == strip(upper(city))
         IN  IF is_in(city_normalized, cities_normalized)
             THEN <<TRUE, region_data.name>>
             ELSE <<FALSE, "None">>

\* validate_location, lines 157-170
validate_location(cc, uf, city, o) ==
    LET r == get_cities_by_uf(cc, uf, o)
        cities == r.ret
        city_normalized == strip(upper(city))
        cities_normalized == [i \in 1..Len(cities) |-> strip(upper(cities[i]))]
        is_valid == is_in(city_normalized, cities_normalized)
        metro == is_metropolitan_area(uf, city)
    IN  [cache |-> r.cache,
         ret |-> [uf |-> uf, city |-> city, valid |-> is_valid,
                  metropolitan |-> metro[1], metropolitan_name |-> metro[2]],
         log |-> r.log]

\* a client calls api_localidades.obter_municipios_por_uf(uf)
APILocalidades_obter_municipios_por_uf ==
    /\ component = "APILocalidades"
    /\ Len(d_calls) < MaxLookups
    /\ \E uf \in DirUFs :
         \E o \in LocalityOutcomesFor(cache_municipios, uf) :
           \E r \in {obter_municipios_por_uf(cache_municipios, uf, o)} :
               /\ cache_municipios' = r.cache
               /\ d_calls' = d_calls \o r.log
               /\ d_last' = Call("obter_municipios_por_uf", uf, <<>>, r.log, r.ret)
    /\ UNCHANGED <<component, wvars, nvars, rvars, bvars, cities_cache>>

\* a client calls api_localidades.validar_municipio(municipio, uf)
APILocalidades_validar_municipio ==
    /\ component = "APILocalidades"
    /\ Len(d_calls) < MaxLookups
    /\ \E uf \in DirUFs, municipio \in DirNames :
         \E o \in LocalityOutcomesFor(cache_municipios, uf) :
           \E r \in {validar_municipio(cache_municipios, municipio, uf, o)} :
               /\ cache_municipios' = r.cache
               /\ d_calls' = d_calls \o r.log
               /\ d_last' = Call("validar_municipio", uf, municipio, r.log, r.ret)
    /\ UNCHANGED <<component, wvars, nvars, rvars, bvars, cities_cache>>

\* a client calls api_localidades.normalizar_municipio(municipio, uf)
APILocalidades_normalizar_municipio ==
    /\ component = "APILocalidades"
    /\ Len(d_calls) < MaxLookups
    /\ \E uf \in DirUFs, municipio \in DirNames :
         \E o \in LocalityOutcomesFor(cache_municipios, uf) :
           \E r \in {normalizar_municipio(cache_municipios, municipio, uf, o)} :
               /\ cache_municipios' = r.cache
               /\ d_calls' = d_calls \o r.log
               /\ d_last' = Call("normalizar_municipio", uf, municipio, r.log,
                                 r.ret)
    /\ UNCHANGED <<component, wvars, nvars, rvars, bvars, cities_cache>>

\* a client calls consultor.validar_localizacao(municipio, uf); the consultor
\* uses its own APILocalidades
Consultor_validar_localizacao ==
    /\ component = "ConsultorCNPJ"
    /\ Len(d_calls) < MaxLookups
    /\ \E uf \in DirUFs, municipio \in DirNames :
         \E o \in ValidarOutcomesFor(cache_municipios, uf) :
           \E r \in {validar_localizacao(cache_municipios, municipio, uf, o)} :
               /\ cache_municipios' = r.cache
               /\ d_calls' = d_calls \o r.log
               /\ d_last' = Call("validar_localizacao", uf, municipio, r.log,
                                 <<r.ok, r.value>>)
    /\ UNCHANGED <<component, wvars, nvars, rvars, bvars, cities_cache>>

\* a client calls get_cities_by_uf(uf)
LocalizationAPI_get_cities_by_uf ==
    /\ component = "LocalizationAPI"
    /\ Len(d_calls) < MaxLookups
    /\ \E uf \in DirUFs :
         \E o \in LocalityOutcomesFor(cities_cache, uf) :
           \E r \in {get_cities_by_uf(cities_cache, uf, o)} :
               /\ cities_cache' = r.cache
               /\ d_calls' = d_calls \o r.log
               /\ d_last' = Call("get_cities_by_uf", uf, <<>>, r.log, r.ret)
    /\ UNCHANGED <<component, wvars, nvars, rvars, bvars, cache_municipios>>

\* a client calls validate_location(uf, city)
LocalizationAPI_validate_location ==
    /\ component = "LocalizationAPI"
    /\ Len(d_calls) < MaxLookups
    /\ \E uf \in DirUFs, city \in DirNames :
         \E o \in LocalityOutcomesFor(cities_cache, uf) :
           \E r \in {validate_location(cities_cache, uf, city, o)} :
               /\ cities_cache' = r.cache
               /\ d_calls' = d_calls \o r.log
               /\ d_last' = Call("validate_location", uf, city, r.log, r.ret)
    /\ UNCHANGED <<component, wvars, nvars, rvars, bvars, cache_municipios>>

(***************************************************************************)
(* The metropolitan-area classifiers on their own.                         *)
(***************************************************************************)
\* the arguments of the classifiers
MetroUFs == {"SP", "RJ", "SC", "CE", "AC", "XX"}
MetroNames ==
    { <<"S", "a", "o", " ", "P", "a", "u", "l", "o">>, <<"S", "A", "O", " ", "P", "A", "U", "L", "O">>, <<"P", "a", "u", "l", "o">>, <<" ", "I", "t", "u", " ">>, <<"O", "s", "a", "s", "c", "o">>, <<"o", "s", "a", "s", "c", "o">>,
      <<"N", "i", "t", "e", "r", "o", "i">>, <<"B", "l", "u", "m", "e", "n", "a", "u">>, <<"F", "o", "r", "t", "a", "l", "e", "z", "a">>, <<"G", "r", "a", "n", "d", "e", " ", "F", "o", "r", "t", "a", "l", "e", "z", "a">>, <<"X", "i", "q", "u", "e">>,
      <<>> }

\* a client calls is_metropolitan_area(uf, city)
LocalizationAPI_is_metropolitan_area ==
    /\ component = "LocalizationAPI"
    /\ \E uf \in MetroUFs, city \in MetroNames :
         d_last' = Call("is_metropolitan_area", uf, city, <<>>,
                        is_metropolitan_area(uf, city))
    /\ UNCHANGED <<component, wvars, nvars, rvars, bvars, cache_municipios,
                   cities_cache, d_calls>>

\* a client calls identificar_regiao_metro(municipio, uf)
Analisador_identificar_regiao_metro ==
    /\ component = "AnalisadorDadosEmpresa"
    /\ \E uf \in MetroUFs, municipio \in MetroNames :
         d_last' = Call("identificar_regiao_metro", uf, municipio, <<>>,
                        identificar_regiao_metro(municipio, uf))
    /\ UNCHANGED <<component, wvars, nvars, rvars, bvars, cache_municipios,
                   cities_cache, d_calls>>


(***************************************************************************)
(* Worker threads sharing one object.  No class takes a lock: a call is    *)
(* the sequence of its steps (cache test, request, cache write), and the   *)
(* steps of different threads interleave.  Each thread makes one call.     *)
(***************************************************************************)
NumWorkers == 2

\* the arguments the threads pass in
WorkerIds == {IdDisplay, IdCanon}
WorkerUFs == {"SP", "RJ"}

\* a thread: where it stands in its call, the argument, the local result
Worker(at, arg, res, raised) ==
    [pc |-> at, arg |-> arg, result |-> res, raised |-> raised]
IdleWorker == Worker("idle", <<>>, None, FALSE)

\* a request answered (kind: what the source did; ok: it gave the value the
\* call goes on with) or a write of a cache entry, made by thread w
Requested(w, src, key, arg, kind, ok) ==
    [w |-> w, ev |-> "request", src |-> src, key |-> key, arg |-> arg,
     kind |-> kind, ok |-> ok]
Written(w, key, arg) ==
    [w |-> w, ev |-> "write", src |-> "cache", key |-> key, arg |-> arg,
     kind |-> "write", ok |-> TRUE]

\* thread w moves on
Moves(w, to) == workers' = [workers EXCEPT ![w] = to]

\* ---- cnpj_api.py: fetch_cnpj_data -------------------------------------
\* lines 102-107: clean_cnpj in self.cache
Worker_fetch_cnpj_data ==
    /\ component = "CNPJDataFetcher"
    /\ \E w \in 1..NumWorkers : \E cnpj \in WorkerIds :
         LET clean_cnpj == CNPJDataFetcher_clean_cnpj(cnpj)
         IN  /\ workers[w].pc = "idle"
             /\ IF clean_cnpj \in DOMAIN cache
                THEN Moves(w, Worker("done", cnpj, Some(cache[clean_cnpj]), FALSE))
                ELSE Moves(w, Worker("src1", cnpj, None, FALSE))
    /\ UNCHANGED <<component, pool, nvars, rvars, bvars, dvars, w_events>>

\* line 110: result = self.fetch_from_cnpjs_dev(cnpj)
Worker_fetch_src1 ==
    /\ component = "CNPJDataFetcher"
    /\ \E w \in 1..NumWorkers : \E o \in CnpjsDevOutcomes :
         LET cnpj == workers[w].arg
             r == fetch_from_cnpjs_dev(cnpj, o)
         IN  /\ workers[w].pc = "src1"
             /\ Moves(w, Worker(IF r = None THEN "src2" ELSE "store", cnpj, r, FALSE))
             /\ w_events' = Append(w_events,
                    Requested(w, "cnpjs.dev", CNPJDataFetcher_clean_cnpj(cnpj), cnpj, o.kind,
                              r # None))
    /\ UNCHANGED <<component, pool, nvars, rvars, bvars, dvars>>

\* lines 112-129: sleep(0.5), result = self.fetch_from_moccasin(cnpj), else
\* the not-found record
Worker_fetch_src2 ==
    /\ component = "CNPJDataFetcher"
    /\ \E w \in 1..NumWorkers : \E o \in MoccasinOutcomes :
         LET cnpj == workers[w].arg
             r == fetch_from_moccasin(cnpj, o)
         IN  /\ workers[w].pc = "src2"
             /\ Moves(w, Worker("store", cnpj,
                                IF r = None THEN Some(Fetcher_not_found(cnpj)) ELSE r,
                                FALSE))
             /\ w_events' = Append(w_events,
                    Requested(w, "moccasin", CNPJDataFetcher_clean_cnpj(cnpj), cnpj, o.kind,
                              r # None))
    /\ UNCHANGED <<component, pool, nvars, rvars, bvars, dvars>>

\* lines 146-147: self.cache[clean_cnpj] = result; return result
Worker_fetch_store ==
    /\ component = "CNPJDataFetcher"
    /\ \E w \in 1..NumWorkers :
         LET cnpj == workers[w].arg
             clean_cnpj == CNPJDataFetcher_clean_cnpj(cnpj)
         IN  /\ workers[w].pc = "store"
             /\ cache' = put(cache, clean_cnpj, the(workers[w].result))
             /\ Moves(w, [workers[w] EXCEPT !.pc = "done"])
             /\ w_events' = Append(w_events, Written(w, clean_cnpj, cnpj))
    /\ UNCHANGED <<component, pool, nvars, bvars, dvars, pc, cur, result, trace, caller,
                   calls, frame>>

\* ---- consulta_cnpj_massa.py: consultar_brasilapi ------------------------
\* lines 84-87: cnpj_limpo in self.cache
Worker_consultar_brasilapi ==
    /\ component = "ConsultorCNPJ"
    /\ \E w \in 1..NumWorkers : \E cnpj \in WorkerIds :
         LET cnpj_limpo == ConsultorCNPJ_cnpj_limpo(cnpj)
         IN  /\ workers[w].pc = "idle"
             /\ IF cnpj_limpo \in DOMAIN cache
                THEN Moves(w, Worker("done", cnpj, Some(cache[cnpj_limpo]), FALSE))
                ELSE Moves(w, Worker("request", cnpj, None, FALSE))
    /\ UNCHANGED <<component, pool, nvars, rvars, bvars, dvars, w_events>>

\* lines 89-111: requests.get and the record built from the body; lines
\* 113-117: a RequestException or another status gives None
Worker_brasilapi_request ==
    /\ component = "ConsultorCNPJ"
    /\ \E w \in 1..NumWorkers : \E o \in BrasilApiOutcomes :
         LET cnpj == workers[w].arg
             r == consultar_brasilapi(EmptyDict, cnpj, o, Len(w_events))
         IN  /\ workers[w].pc = "request"
             /\ Moves(w, Worker(IF r.raised \/ r.ret = None THEN "done" ELSE "store",
                                cnpj, r.ret, r.raised))
             /\ w_events' = Append(w_events,
                    Requested(w, "brasilapi", ConsultorCNPJ_cnpj_limpo(cnpj), cnpj, o.kind,
                              ~r.raised /\ r.ret # None))
    /\ UNCHANGED <<component, pool, nvars, rvars, bvars, dvars>>

\* lines 112-113: self.cache[cnpj_limpo] = resultado; return resultado
Worker_brasilapi_store ==
    /\ component = "ConsultorCNPJ"
    /\ \E w \in 1..NumWorkers :
         LET cnpj == workers[w].arg
             cnpj_limpo == ConsultorCNPJ_cnpj_limpo(cnpj)
         IN  /\ workers[w].pc = "store"
             /\ cache' = put(cache, cnpj_limpo, the(workers[w].result))
             /\ Moves(w, [workers[w] EXCEPT !.pc = "done"])
             /\ w_events' = Append(w_events, Written(w, cnpj_limpo, cnpj))
    /\ UNCHANGED <<component, pool, nvars, bvars, dvars, pc, cur, result, trace, caller,
                   calls, frame>>

\* ---- scraper_cnpj.py: scrape_all_companies ------------------------------
\* lines 108-112 and 76-96: the executor runs fetch_city_info(row) for every
\* row of unique_companies (one row per distinct value of the CNPJ column);
\* search_by_cnpj (lines 30-60) keeps no cache and always sends its request
Worker_search_by_cnpj ==
    /\ component = "ParallelScraper"
    /\ \E w \in 1..NumWorkers : \E cnpj \in WorkerIds : \E o \in {"found", "not_found", "error"} :
         /\ workers[w].pc = "idle"
         /\ \A v \in 1..NumWorkers : workers[v].arg # cnpj
         /\ Moves(w, Worker("done", cnpj, Some([cnpj |-> cnpj, status |-> o]), FALSE))
         /\ w_events' = Append(w_events,
                Requested(w, "sintegra", ParallelScraper_clean_cnpj(cnpj), cnpj, o,
                          o = "found"))
    /\ UNCHANGED <<component, pool, nvars, rvars, bvars, dvars>>

\* ---- consulta_cnpj_massa.py: obter_municipios_por_uf --------------------
\* lines 35-36: uf in self.cache_municipios
Worker_obter_municipios_por_uf ==
    /\ component = "APILocalidades"
    /\ \E w \in 1..NumWorkers : \E uf \in WorkerUFs :
         /\ workers[w].pc = "idle"
         /\ IF uf \in DOMAIN cache_municipios
            THEN Moves(w, Worker("done", uf, cache_municipios[uf], FALSE))
            ELSE Moves(w, Worker("request", uf, <<>>, FALSE))
    /\ UNCHANGED <<component, pool, nvars, rvars, bvars, dvars, w_events>>

\* lines 38-43 and 47-50: the request and the list built from the body
Worker_municipios_request ==
    /\ component = "APILocalidades"
    /\ \E w \in 1..NumWorkers : \E o \in LocalityOutcomes :
         LET uf == workers[w].arg
             r == obter_municipios_por_uf(EmptyDict, uf, o)
             failed == r.log[1].failed
         IN  /\ workers[w].pc = "request"
             /\ Moves(w, Worker(IF failed THEN "done" ELSE "store", uf, r.ret, FALSE))
             /\ w_events' = Append(w_events, Requested(w, "ibge", uf, uf,
                                                   IF failed THEN "failed" ELSE "ok", ~failed))
    /\ UNCHANGED <<component, pool, nvars, rvars, bvars, dvars>>

\* lines 44-46: self.cache_municipios[uf] = municipios; return municipios
Worker_municipios_store ==
    /\ component = "APILocalidades"
    /\ \E w \in 1..NumWorkers :
         LET uf == workers[w].arg
         IN  /\ workers[w].pc = "store"
             /\ cache_municipios' = put(cache_municipios, uf, workers[w].result)
             /\ Moves(w, [workers[w] EXCEPT !.pc = "done"])
             /\ w_events' = Append(w_events, Written(w, uf, uf))
    /\ UNCHANGED <<component, pool, nvars, rvars, bvars, cities_cache, d_calls, d_last>>

\* ---- localization_api.py: get_cities_by_uf ------------------------------
\* lines 101-102: uf in self.cities_cache
Worker_get_cities_by_uf ==
    /\ component = "LocalizationAPI"
    /\ \E w \in 1..NumWorkers : \E uf \in WorkerUFs :
         /\ workers[w].pc = "idle"
         /\ IF uf \in DOMAIN cities_cache
            THEN Moves(w, Worker("done", uf, cities_cache[uf], FALSE))
            ELSE Moves(w, Worker("request", uf, <<>>, FALSE))
    /\ UNCHANGED <<component, pool, nvars, rvars, bvars, dvars, w_events>>

\* lines 104-110 and 115-117
Worker_cities_request ==
    /\ component = "LocalizationAPI"
    /\ \E w \in 1..NumWorkers : \E o \in LocalityOutcomes :
         LET uf == workers[w].arg
             r == get_cities_by_uf(EmptyDict, uf, o)
             failed == r.log[1].failed
         IN  /\ workers[w].pc = "request"
             /\ Moves(w, Worker(IF failed THEN "done" ELSE "store", uf, r.ret, FALSE))
             /\ w_events' = Append(w_events, Requested(w, "ibge", uf, uf,
                                                   IF failed THEN "failed" ELSE "ok", ~failed))
    /\ UNCHANGED <<component, pool, nvars, rvars, bvars, dvars>>

\* lines 111-113: self.cities_cache[uf] = cities; return cities
Worker_cities_store ==
    /\ component = "LocalizationAPI"
    /\ \E w \in 1..NumWorkers :
         LET uf == workers[w].arg
         IN  /\ workers[w].pc = "store"
             /\ cities_cache' = put(cities_cache, uf, workers[w].result)
             /\ Moves(w, [workers[w] EXCEPT !.pc = "done"])
             /\ w_events' = Append(w_events, Written(w, uf, uf))
    /\ UNCHANGED <<component, pool, nvars, rvars, bvars, cache_municipios, d_calls, d_last>>
(***************************************************************************)
(* scraper_cnpj.py: scrape_all_companies.  The calling thread submits one  *)
(* fetch_city_info per row of unique_companies to a ThreadPoolExecutor and *)
(* collects the futures with as_completed; the executor's threads run the  *)
(* lookups.                                                                *)
(***************************************************************************)
MaxRows == 3       \* most rows of the sheet
MaxPool == 2       \* largest max_workers

\* the values of the CNPJ column, in the order of Python's string comparison
\* ('.' < '1' < '2')
CnpjColumn == <<IdDisplay, IdCanon, IdShort>>

\* the sheets: a CNPJ value per row
RECURSIVE SheetsOf(_)
SheetsOf(n) ==
    IF n = 0 THEN {<<>>}
    ELSE SheetsOf(n - 1) \cup
         {Append(df, c) : df \in {s \in SheetsOf(n - 1) : Len(s) = n - 1},
                          c \in {CnpjColumn[i] : i \in 1..Len(CnpjColumn)}}
Sheets == SheetsOf(MaxRows)

\* lines 62-74: df.groupby('CNPJ') ... reset_index(): one row per distinct
\* value of the column, sorted by it
extract_unique_companies(df) ==
    SelectSeq(CnpjColumn, LAMBDA c : \E i \in 1..Len(df) : df[i] = c)

\* lines 76-100: the dict fetch_city_info returns; search_by_cnpj's return
\* value is dropped (line 96) and both functions catch every Exception
fetch_city_info(cnpj) ==
    [CNPJ |-> cnpj, Cidade |-> "Pendente", Fonte |-> "Manual"]

\* lines 30-60: what search_by_cnpj returns: status 200, another status, or
\* an exception (timeout=5 bounds the request)
LookupOutcomes == {"found", "not_found", "error"}

NoPool ==
    [pc |-> "none", df |-> <<>>, rows |-> <<>>, max_workers |-> 0, state |-> <<>>,
     status |-> <<>>, completion |-> <<>>, finished |-> {}, listed |-> {},
     waiter |-> <<>>, results |-> <<>>]

Futures == 1..Len(pool.rows)
InFlight == {i \in Futures : pool.state[i] = "running"}
Pending == {i \in Futures : pool.state[i] = "pending"}

\* lines 102-107: unique_companies, results = [], the executor
Pool_scrape_all_companies ==
    /\ component = "ParallelScraper"
    /\ pool.pc = "none"
    /\ \E df \in Sheets : \E max_workers \in 1..MaxPool :
         LET unique_companies == extract_unique_companies(df)
         IN  pool' = [NoPool EXCEPT
                        !.pc = "submit",
                        !.df = df,
                        !.rows = unique_companies,
                        !.max_workers = max_workers,
                        !.state = [i \in 1..Len(unique_companies) |-> "new"],
                        !.status = [i \in 1..Len(unique_companies) |-> "none"]]
    /\ UNCHANGED <<component, nvars, rvars, bvars, dvars, workers, w_events>>

\* lines 108-111: executor.submit(self.fetch_city_info, row) for the next row;
\* the work item joins the executor's queue
Pool_submit ==
    /\ pool.pc = "submit"
    /\ \E i \in Futures :
         /\ pool.state[i] = "new"
         /\ \A j \in 1..(i - 1) : pool.state[j] # "new"
         /\ pool' = [pool EXCEPT !.state[i] = "pending"]
    /\ UNCHANGED <<component, nvars, rvars, bvars, dvars, workers, w_events>>

Pool_worker_start_unbounded ==
    /\ pool.pc \in {"submit", "collect"}
    /\ \E i \in Pending :
         /\ \A j \in Pending : i <= j
         /\ pool' = [pool EXCEPT !.state[i] = "running"]
    /\ UNCHANGED <<component, nvars, rvars, bvars, dvars, workers, w_events>>

\* a thread of the executor takes the oldest queued work item; the executor
\* has at most max_workers threads, each running one item at a time
Pool_worker_start ==
    /\ pool.pc \in {"submit", "collect"}
    /\ Cardinality(InFlight) < pool.max_workers
    /\ \E i \in Pending :
         /\ \A j \in Pending : i <= j
         /\ pool' = [pool EXCEPT !.state[i] = "running"]
    /\ UNCHANGED <<component, nvars, rvars, bvars, dvars, workers, w_events>>

\* lines 95-100: search_by_cnpj answers and fetch_city_info returns; the
\* future is set to FINISHED and handed to the waiter of as_completed if one
\* is installed
Pool_worker_finish ==
    /\ \E i \in InFlight : \E o \in LookupOutcomes :
         pool' = [pool EXCEPT
                    !.state[i] = "finished",
                    !.status[i] = o,
                    !.completion = Append(@, i),
                    !.waiter = IF pool.pc = "collect" THEN Append(@, i) ELSE @]
    /\ UNCHANGED <<component, nvars, rvars, bvars, dvars, workers, w_events>>

\* line 113: as_completed(futures) starts once every row is submitted: the
\* futures already FINISHED go into a set, a waiter is installed on the rest
Pool_as_completed ==
    /\ pool.pc = "submit"
    /\ \A i \in Futures : pool.state[i] # "new"
    /\ pool' = [pool EXCEPT
                  !.pc = "collect",
                  !.finished = {i \in Futures : pool.state[i] = "finished"},
                  !.listed = {i \in Futures : pool.state[i] = "finished"}]
    /\ UNCHANGED <<component, nvars, rvars, bvars, dvars, workers, w_events>>

\* lines 113-116: as_completed yields a future of the list made of that set
\* (list(set): in no particular order);
\* results.append(future.result())
Pool_yield_finished ==
    /\ pool.pc = "collect"
    /\ \E i \in pool.listed :
         pool' = [pool EXCEPT
                    !.listed = @ \ {i},
                    !.results = Append(@, fetch_city_info(pool.rows[i]))]
    /\ UNCHANGED <<component, nvars, rvars, bvars, dvars, workers, w_events>>

\* lines 113-116: then the futures the waiter received, in the order they
\* finished
Pool_yield_waited ==
    /\ pool.pc = "collect"
    /\ pool.listed = {}
    /\ pool.waiter # <<>>
    /\ pool' = [pool EXCEPT
                  !.waiter = Tail(@),
                  !.results = Append(@, fetch_city_info(pool.rows[Head(pool.waiter)]))]
    /\ UNCHANGED <<component, nvars, rvars, bvars, dvars, workers, w_events>>

\* lines 123-124: every future was yielded; the executor is shut down,
\* self.results = results, return
Pool_return ==
    /\ pool.pc = "collect"
    /\ Len(pool.results) = Len(pool.rows)
    /\ pool' = [pool EXCEPT !.pc = "returned"]
    /\ UNCHANGED <<component, nvars, rvars, bvars, dvars, workers, w_events>>
(***************************************************************************)
(* Specifications.  Each run exercises one class (component); the state    *)
(* of the others stays as constructed.                                     *)
(***************************************************************************)
NormFresh ==
    /\ n_in = <<>>
    /\ n_cur = <<>>
    /\ n_steps = <<>>

\* __init__ of the resolvers: empty cache; nothing in progress
ResolverFresh ==
    /\ cache = EmptyDict
    /\ pc = "idle"
    /\ cur = <<>>
    /\ result = None
    /\ trace = <<>>
    /\ caller = "client"
    /\ calls = <<>>
    /\ frame = NoFrame
    /\ b_list = <<>>
    /\ b_idx = 0
    /\ b_results = <<>>
    /\ b_progress = <<>>
    /\ b_state = "none"

\* __init__ of the directories: empty caches
DirectoryFresh ==
    /\ cache_municipios = EmptyDict
    /\ cities_cache = EmptyDict
    /\ d_calls = <<>>
    /\ d_last = NoCall

\* no worker thread has been started
WorkersFresh ==
    /\ workers = <<>>
    /\ w_events = <<>>
    /\ pool = NoPool

InitNorm ==
    /\ component \in NormComponents
    /\ n_in \in NormInputs
    /\ n_cur = n_in
    /\ n_steps = <<>>
    /\ ResolverFresh
    /\ DirectoryFresh
    /\ WorkersFresh

NextNorm ==
    \/ Fetcher_clean
    \/ Fetcher_format
    \/ Scraper_clean
    \/ Scraper_format
    \/ Consultor_clean
    \/ Parallel_clean

SpecNorm == InitNorm /\ [][NextNorm]_vars

ResolveComponents == {"CNPJDataFetcher", "CNPJScraper"}

Init ==
    /\ component \in ResolveComponents
    /\ NormFresh
    /\ ResolverFresh
    /\ DirectoryFresh
    /\ WorkersFresh

Next ==
    \/ Fetcher_fetch_cnpj_data
    \/ Fetcher_src1
    \/ Fetcher_sleep
    \/ Fetcher_src2
    \/ Fetcher_store
    \/ Fetcher_fetch_batch
    \/ Fetcher_batch_iter
    \/ Fetcher_batch_append
    \/ Fetcher_batch_return
    \/ Scraper_scrape_cnpj
    \/ Scraper_src1
    \/ Scraper_sleep
    \/ Scraper_src2
    \/ Scraper_store
    \/ Scraper_scrape_batch
    \/ Scraper_batch_iter
    \/ Scraper_batch_append
    \/ Scraper_batch_return

Spec == Init /\ [][Next]_vars

ConsultorComponents == {"ConsultorCNPJ"}

InitConsultor ==
    /\ component \in ConsultorComponents
    /\ NormFresh
    /\ ResolverFresh
    /\ DirectoryFresh
    /\ WorkersFresh

NextConsultor ==
    \/ Consultor_consultar_cnpj
    \/ Analisador_processar_lote
    \/ Analisador_lote_consultar
    \/ Analisador_lote_validar_uf
    \/ Analisador_lote_validar_municipio
    \/ Analisador_lote_return

SpecConsultor == InitConsultor /\ [][NextConsultor]_vars


DirectoryComponents == {"APILocalidades", "ConsultorCNPJ", "LocalizationAPI"}

InitDir ==
    /\ component \in DirectoryComponents
    /\ NormFresh
    /\ ResolverFresh
    /\ DirectoryFresh
    /\ WorkersFresh

NextDir ==
    \/ APILocalidades_obter_municipios_por_uf
    \/ APILocalidades_validar_municipio
    \/ APILocalidades_normalizar_municipio
    \/ Consultor_validar_localizacao
    \/ LocalizationAPI_get_cities_by_uf
    \/ LocalizationAPI_validate_location

SpecDir == InitDir /\ [][NextDir]_vars

ClassifierComponents == {"LocalizationAPI", "AnalisadorDadosEmpresa"}

InitMetro ==
    /\ component \in ClassifierComponents
    /\ NormFresh
    /\ ResolverFresh
    /\ DirectoryFresh
    /\ WorkersFresh

NextMetro ==
    \/ LocalizationAPI_is_metropolitan_area
    \/ Analisador_identificar_regiao_metro

SpecMetro == InitMetro /\ [][NextMetro]_vars

\* the threads of a pool, started on one shared object
ResolverWorkers == {"CNPJDataFetcher", "ConsultorCNPJ", "ParallelScraper"}
DirectoryWorkers == {"APILocalidades", "LocalizationAPI"}

InitWorkers ==
    /\ component \in ResolverWorkers \cup DirectoryWorkers
    /\ NormFresh
    /\ ResolverFresh
    /\ DirectoryFresh
    /\ workers = [w \in 1..NumWorkers |-> IdleWorker]
    /\ w_events = <<>>
    /\ pool = NoPool

NextWorkers ==
    \/ Worker_fetch_cnpj_data
    \/ Worker_fetch_src1
    \/ Worker_fetch_src2
    \/ Worker_fetch_store
    \/ Worker_consultar_brasilapi
    \/ Worker_brasilapi_request
    \/ Worker_brasilapi_store
    \/ Worker_search_by_cnpj
    \/ Worker_obter_municipios_por_uf
    \/ Worker_municipios_request
    \/ Worker_municipios_store
    \/ Worker_get_cities_by_uf
    \/ Worker_cities_request
    \/ Worker_cities_store

SpecWorkers == InitWorkers /\ [][NextWorkers]_vars

\* one call of scrape_all_companies on a fresh CNPJScraper of scraper_cnpj.py
InitPool ==
    /\ component = "ParallelScraper"
    /\ NormFresh
    /\ ResolverFresh
    /\ DirectoryFresh
    /\ WorkersFresh

NextPool ==
    \/ Pool_scrape_all_companies
    \/ Pool_submit
    \/ Pool_worker_start
    \/ Pool_worker_finish
    \/ Pool_as_completed
    \/ Pool_yield_finished
    \/ Pool_yield_waited
    \/ Pool_return

SpecPool == InitPool /\ [][NextPool]_vars

\* a step of the call in progress, by the calling thread or by a thread of
\* the executor
PoolRuns ==
    \/ Pool_submit
    \/ Pool_worker_start
    \/ Pool_worker_finish
    \/ Pool_as_completed
    \/ Pool_yield_finished
    \/ Pool_yield_waited
    \/ Pool_return

\* the threads keep being scheduled and every request ends (timeout=5, line
\* 48): while a step of the call is possible, one is taken
SpecPoolFair == SpecPool /\ WF_vars(PoolRuns)
(***************************************************************************)
(* Reference definitions for the normalizer claims.                        *)
(***************************************************************************)
Punctuation == {".", "-", "/"}

\* raw with every '.', '-' and '/' removed, the other characters in order
StripPunct(s) == SelectSeq(s, LAMBDA ch : ch \notin Punctuation)

\* the display form NN.NNN.NNN/NNNN-NN of 14 characters, position by position
DisplayForm(c) ==
    <<c[1], c[2], ".", c[3], c[4], c[5], ".", c[6], c[7], c[8], "/",
      c[9], c[10], c[11], c[12], "-", c[13], c[14]>>

\* C7: for a canonical identifier c of 14 digits, format(c) is the display
\* form of c, normalize(format(c)) = c and format(normalize(format(c))) =
\* format(c), in both classes that have a format function.
C7_RoundTrip ==
    (n_in \in CanonIds /\ component \in {"CNPJDataFetcher", "CNPJScraper"}) =>
        /\ n_steps = <<"format">> => n_cur = DisplayForm(n_in)
        /\ n_steps = <<"format", "clean">> => n_cur = n_in
        /\ n_steps = <<"format", "clean", "format">> => n_cur = DisplayForm(n_in)

C7_Witness ==
    /\ n_in \in CanonIds
    /\ n_in # BaseCnpj
    /\ component = "CNPJDataFetcher"
    /\ n_steps = <<"format", "clean", "format">>
    /\ Len(n_cur) = 18

\* C8: in every component, normalize(raw) is raw with every '.', '-' and '/'
\* removed and every other character kept in order.
C8_StripsPunctuation ==
    n_steps = <<"clean">> => n_cur = StripPunct(n_in)


(***************************************************************************)
(* Reference definitions for the resolver claims.  calls holds, in order,  *)
(* every resolve completed in the run with the requests it made.           *)
(***************************************************************************)
\* the canonical form of an identifier, as the class of this run computes it
Canonical(cnpj) ==
    CASE component = "CNPJScraper" -> CNPJScraper_clean_cnpj(cnpj)
      [] component = "ConsultorCNPJ" -> ConsultorCNPJ_cnpj_limpo(cnpj)
      [] OTHER -> CNPJDataFetcher_clean_cnpj(cnpj)

Requests(tr) == SelectSeq(tr, LAMBDA e : e.ev = "request")

Digits == {"0", "1", "2", "3", "4", "5", "6", "7", "8", "9"}
FourteenDigits(key) == Len(key) = CnpjLen /\ \A i \in 1..Len(key) : key[i] \in Digits

RECURSIVE SumLen(_, _)
SumLen(seqs, n) == IF n = 0 THEN 0 ELSE Len(seqs[n]) + SumLen(seqs, n - 1)

\* the calls made by the batch of this run
BatchCalls == SelectSeq(calls, LAMBDA c : c.who = "batch")

\* C1: an identifier resolved twice in one run: the second call makes no
\* network request and returns the record the first call returned, whatever
\* the outcome of the first call.
C1_SecondResolveFromCache ==
    \A i \in 1..Len(calls) : \A j \in (i + 1)..Len(calls) :
        (/\ Canonical(calls[i].cnpj) = Canonical(calls[j].cnpj)
         /\ ~calls[i].raised) =>
            /\ Requests(calls[j].trace) = <<>>
            /\ calls[j].ret = calls[i].ret

C1_Witness ==
    /\ Len(calls) >= 2
    /\ Canonical(calls[1].cnpj) = Canonical(calls[2].cnpj)
    /\ calls[1].ret # None
    /\ the(calls[1].ret).status = "ATIVO"
    /\ calls[2].trace = <<>>

\* C2: a batch over N identifiers never halts on one identifier's failure and
\* returns exactly N records, the i-th belonging to the i-th identifier.
C2_BatchKeepsEveryRow ==
    /\ b_state # "raised"
    /\ b_state = "done" =>
          /\ Len(b_results) = Len(b_list)
          /\ \A i \in 1..Len(b_list) : b_results[i].CNPJ = b_list[i].CNPJ

C2_Witness ==
    /\ b_state = "done"
    /\ Len(b_list) = MaxBatch
    /\ Len(b_results) = MaxBatch
    /\ \E i \in 1..Len(b_results) : b_results[i].Status = "ERRO_CONSULTA"

\* C3: resolve always returns a record and never raises, whatever the input
\* and whatever the upstream does.
C3_ResolveNeverRaises ==
    \A i \in 1..Len(calls) : ~calls[i].raised /\ calls[i].ret # None

C3_Witness ==
    \E i \in 1..Len(calls) :
        /\ ~calls[i].raised
        /\ calls[i].ret # None
        /\ the(calls[i].ret).status = "ERRO_CONSULTA"

\* the record synthesized when no source gave one
NotFoundRecord(r) == r.status \in {"nao_encontrado", "ERRO_CONSULTA"}

\* C4: when every source fails for an identifier, the not-found record is
\* stored in the cache under the canonical identifier, and a repeated resolve
\* of that identifier issues no request.
C4_FailureCached ==
    \A i \in 1..Len(calls) :
        (/\ ~calls[i].raised
         /\ Requests(calls[i].trace) # <<>>
         /\ NotFoundRecord(the(calls[i].ret))) =>
            /\ Canonical(calls[i].cnpj) \in DOMAIN cache
            /\ cache[Canonical(calls[i].cnpj)] = the(calls[i].ret)
            /\ \A j \in (i + 1)..Len(calls) :
                  Canonical(calls[j].cnpj) = Canonical(calls[i].cnpj) =>
                      Requests(calls[j].trace) = <<>>

C4_Witness ==
    /\ Len(calls) >= 2
    /\ Canonical(calls[1].cnpj) = Canonical(calls[2].cnpj)
    /\ ~calls[1].raised
    /\ NotFoundRecord(the(calls[1].ret))
    /\ ~calls[2].raised

\* C5: no request is issued for an identifier whose canonical form is not
\* exactly 14 digits.
C5_NoRequestUnlessFourteenDigits ==
    /\ \A k \in 1..Len(trace) :
          trace[k].ev = "request" => FourteenDigits(trace[k].key)
    /\ \A i \in 1..Len(calls) : \A k \in 1..Len(calls[i].trace) :
          calls[i].trace[k].ev = "request" => FourteenDigits(calls[i].trace[k].key)

C5_Witness ==
    \E i \in 1..Len(calls) :
        /\ Requests(calls[i].trace) # <<>>
        /\ FourteenDigits(Canonical(calls[i].cnpj))

\* the batch of this run started before any other resolve, with an empty cache
BatchFromFresh == calls # <<>> /\ calls[1].who = "batch"

\* C6: in a batch with repeated identifiers, the number of registry requests
\* of the batch is the number of distinct canonical identifiers of its input,
\* and a repeated identifier yields the record of its first occurrence.
C6_OneRequestPerDistinctId ==
    (b_state = "done" /\ BatchFromFresh) =>
        /\ SumLen([i \in 1..Len(BatchCalls) |-> Requests(BatchCalls[i].trace)],
                  Len(BatchCalls))
             = Cardinality({ Canonical(b_list[i].CNPJ) : i \in 1..Len(b_list) })
        /\ \A i \in 1..Len(BatchCalls) : \A j \in (i + 1)..Len(BatchCalls) :
              Canonical(BatchCalls[i].cnpj) = Canonical(BatchCalls[j].cnpj) =>
                  BatchCalls[j].ret = BatchCalls[i].ret

C6_Witness ==
    /\ b_state = "done"
    /\ BatchFromFresh
    /\ Len(b_list) = 2
    /\ Canonical(b_list[1].CNPJ) = Canonical(b_list[2].CNPJ)
    /\ Len(BatchCalls) = 2
    /\ BatchCalls[2].trace = <<>>

\* the argument of the resolve that a step belongs to
ResolveArg ==
    IF component = "ConsultorCNPJ" THEN calls'[Len(calls')].cnpj ELSE cur

\* a step keeps every entry of the cache as it is, and an entry it adds is
\* keyed by the canonical form of the identifier being resolved
CacheFrame ==
    /\ \A k \in DOMAIN cache : k \in DOMAIN cache' /\ cache'[k] = cache[k]
    /\ \A k \in DOMAIN cache' \ DOMAIN cache : k = Canonical(ResolveArg)

\* C27: in a single-threaded run, an entry of the resolver cache is never
\* overwritten, changed or removed by a later resolve or batch, and a resolve
\* of x changes no entry other than the one keyed by the canonical form of x.
C27_CacheEntriesFrozen == [][CacheFrame]_vars

\* two entries, and a third resolve served from the cache
C27_Witness ==
    /\ component = "CNPJDataFetcher"
    /\ Cardinality(DOMAIN cache) = 2
    /\ Len(calls) = 3
    /\ calls[2].trace # <<>>
    /\ calls[3].trace = <<>>
    /\ cache[Canonical(calls[1].cnpj)] = the(calls[1].ret)

\* the requests of one call: at most one to each source, at most two
OneRequestPerSource(tr) ==
    LET rq == Requests(tr)
    IN  /\ Len(rq) <= 2
        /\ \A a \in 1..Len(rq) : \A b \in (a + 1)..Len(rq) : rq[a].src # rq[b].src

\* the call left its record in the cache
Stored(c) ==
    /\ ~c.raised
    /\ component = "ConsultorCNPJ" => ~NotFoundRecord(the(c.ret))

\* C28: one call of resolve issues at most one request to each source, at
\* most two requests in all, and none when it hits the cache.
C28_RequestsPerCall ==
    /\ OneRequestPerSource(trace)
    /\ \A i \in 1..Len(calls) :
          /\ OneRequestPerSource(calls[i].trace)
          /\ (\E j \in 1..(i - 1) :
                 Stored(calls[j]) /\ Canonical(calls[j].cnpj) = Canonical(calls[i].cnpj))
             => Requests(calls[i].trace) = <<>>

\* a call that asked both sources, and a later one served from the cache
C28_Witness ==
    /\ Len(calls) = 2
    /\ Len(Requests(calls[1].trace)) = 2
    /\ calls[1].trace[1].src = "cnpjs.dev"
    /\ calls[1].trace[3].src = "moccasin"
    /\ calls[2].cnpj # calls[1].cnpj
    /\ Canonical(calls[2].cnpj) = Canonical(calls[1].cnpj)
    /\ calls[2].trace = <<>>

(***************************************************************************)
(* Reference definitions for the source-order claim.                       *)
(***************************************************************************)
Source1 == IF component = "CNPJScraper" THEN "receita_federal" ELSE "cnpjs.dev"
Source2 == IF component = "CNPJScraper" THEN "sintegra" ELSE "moccasin"
Delay == IF component = "CNPJScraper" THEN "1" ELSE "0.5"

\* the events of a resolve of cnpj that went as far as both sources
FullTrace(cnpj) ==
    <<Request(Source1, Canonical(cnpj)), Sleep(Delay), Request(Source2, Canonical(cnpj))>>

DirectoryCache ==
    IF component = "LocalizationAPI" THEN cities_cache ELSE cache_municipios

C11_FetchedOnceNeverChanged ==
    \A i \in 1..Len(d_calls) :
        (d_calls[i].fetched /\ ~d_calls[i].failed) =>
            /\ d_calls[i].uf \in DOMAIN DirectoryCache
            /\ DirectoryCache[d_calls[i].uf] = d_calls[i].ret
            /\ \A j \in (i + 1)..Len(d_calls) :
                  d_calls[j].uf = d_calls[i].uf =>
                      /\ ~d_calls[j].fetched
                      /\ d_calls[j].ret = d_calls[i].ret

C11_Witness ==
    /\ component = "LocalizationAPI"
    /\ Len(d_calls) = 3
    /\ d_calls[1].uf = "SP" /\ d_calls[1].fetched /\ Len(d_calls[1].ret) = 3
    /\ d_calls[2].uf = "RJ"
    /\ d_calls[3].uf = "SP" /\ ~d_calls[3].fetched /\ d_calls[3].ret = d_calls[1].ret
    /\ d_last.op = "validate_location"

\* the entry points that validate a (municipality, region code) pair
ValidatorOps ==
    {"validar_municipio", "normalizar_municipio", "validar_localizacao",
     "validate_location"}

\* what a call of a validator says about the pair
SaysValid(c) ==
    CASE c.op = "validar_municipio" -> c.ret
      [] c.op = "normalizar_municipio" -> c.ret # None
      [] c.op = "validar_localizacao" -> c.ret[1]
      [] c.op = "validate_location" -> c.ret.valid

\* C12: every validator checks the region code against the 27 codes before
\* any network call: for a code outside them the result is invalid and no
\* locality fetch is issued.
C12_EnumerationBeforeFetch ==
    (d_last.op \in ValidatorOps /\ d_last.uf \notin ValidUFs) =>
        /\ ~SaysValid(d_last)
        /\ \A k \in 1..Len(d_last.log) : ~d_last.log[k].fetched

C12_Witness ==
    /\ d_last.op = "validar_localizacao"
    /\ d_last.uf = "XX"
    /\ d_last.ret[1] = FALSE
    /\ d_last.log = <<>>
    /\ Len(d_calls) = 1

(***************************************************************************)
(* Reference definitions for normalize_municipality.                       *)
(***************************************************************************)
\* a occurs in b as a run of consecutive characters
IsSubstring(a, b) ==
    \E off \in 0..Len(b) :
        /\ off + Len(a) <= Len(b)
        /\ \A k \in 1..Len(a) : b[off + k] = a[k]

EitherContains(U, e) == IsSubstring(U, e) \/ IsSubstring(e, U)

\* the first entry of L, in L's order, that U is a substring of or that is a
\* substring of U
RECURSIVE FirstMatch(_, _)
FirstMatch(U, L) ==
    IF L = <<>> THEN None
    ELSE IF EitherContains(U, Head(L)) THEN Some(Head(L))
    ELSE FirstMatch(U, Tail(L))

RefNormalize(name, L) ==
    LET U == upper(name)
    IN  IF \E i \in 1..Len(L) : L[i] = U THEN Some(U) ELSE FirstMatch(U, L)

\* C13: normalize_municipality(name, region) is the reference: the upper-cased
\* name if it is an element of the region's list, otherwise the first entry
\* that contains it or is contained in it, otherwise none; it is non-none
\* exactly when the list has such an entry.
C13_NormalizeIsReference ==
    d_last.op = "normalizar_municipio" =>
        LET L == ListOf(d_last.log)
        IN  /\ d_last.ret = RefNormalize(d_last.name, L)
            /\ d_last.ret # None <=>
                  \E i \in 1..Len(L) : EitherContains(upper(d_last.name), L[i])

\* the name is an element of the list and an earlier entry is a substring of it
C13_Witness ==
    /\ d_last.op = "normalizar_municipio"
    /\ d_last.name = <<"I", "t", "u", "v", "e", "r", "a", "v", "a">>
    /\ d_last.ret = Some(<<"I", "T", "U", "V", "E", "R", "A", "V", "A">>)
    /\ ListOf(d_last.log)[2] = <<"I", "T", "U">>
    /\ ListOf(d_last.log)[3] = <<"I", "T", "U", "V", "E", "R", "A", "V", "A">>

(***************************************************************************)
(* Reference definitions for the metropolitan-area classifiers.            *)
(***************************************************************************)
ClassifierOps == {"is_metropolitan_area", "identificar_regiao_metro"}

\* the region codes with a configured area, per implementation
ConfiguredUFs(op) ==
    IF op = "is_metropolitan_area"
    THEN {"SP", "RJ", "MG", "BA", "PE", "SC", "RS", "PR"}
    ELSE {"SP", "RJ", "MG", "DF", "PR", "RS", "BA", "PE", "CE", "AM"}

\* the member names configured for a region code, per implementation
MembersOf(op, uf) ==
    IF op = "is_metropolitan_area"
    THEN { metropolitan_regions[uf].cities[i] :
             i \in 1..Len(metropolitan_regions[uf].cities) }
    ELSE UNION { { regioes_metropo[k].municipios[i] :
                     i \in 1..Len(regioes_metropo[k].municipios) } :
                 k \in { k \in 1..Len(regioes_metropo) : regioes_metropo[k].uf = uf } }

\* what a call of a classifier says
SaysMember(c) ==
    IF c.op = "is_metropolitan_area" THEN c.ret[1] ELSE c.ret # "None"
AreaName(c) ==
    IF c.op = "is_metropolitan_area" THEN c.ret[2] ELSE c.ret

\* C14: for a region code without a configured metropolitan area, is_member
\* returns (false, none) for every municipality name.
C14_NoAreaNoMember ==
    (d_last.op \in ClassifierOps /\ d_last.uf \notin ConfiguredUFs(d_last.op)) =>
        /\ ~SaysMember(d_last)
        /\ AreaName(d_last) = "None"

\* a name that is a member in another region code's area
C14_Witness ==
    /\ d_last.op = "identificar_regiao_metro"
    /\ d_last.uf = "SC"
    /\ d_last.name = <<"F", "o", "r", "t", "a", "l", "e", "z", "a">>
    /\ d_last.ret = "None"

\* C15: for a region code with a configured area, is_member returns (true,
\* area name) exactly when the upper-cased name is a substring of an
\* upper-cased member name or the other way round, and (false, none)
\* otherwise; the two implementations agree.
C15_SubstringMembership ==
    (d_last.op \in ClassifierOps /\ d_last.uf \in ConfiguredUFs(d_last.op)) =>
        /\ SaysMember(d_last) <=>
              \E m \in MembersOf(d_last.op, d_last.uf) :
                  EitherContains(upper(d_last.name), upper(m))
        /\ ~SaysMember(d_last) => AreaName(d_last) = "None"
        /\ is_metropolitan_area(d_last.uf, d_last.name)[1]
              <=> identificar_regiao_metro(d_last.name, d_last.uf) # "None"

C15_Witness ==
    /\ d_last.op = "is_metropolitan_area"
    /\ d_last.uf = "SP"
    /\ d_last.name = <<"o", "s", "a", "s", "c", "o">>
    /\ d_last.ret[1] = TRUE

(***************************************************************************)
(* Claims about the batch pipeline.                                        *)
(***************************************************************************)
\* C16: during a batch run the progress callback is invoked exactly once after
\* each identifier with (identifiers completed so far, total), failed ones
\* included: after k identifiers the callbacks made are (1, N) .. (k, N), and
\* a finished run over N identifiers has made N of them.
C16_OneCallbackPerIdentifier ==
    b_state \in {"running", "done"} =>
        /\ b_progress = [i \in 1..b_idx |-> <<i, Len(b_list)>>]
        /\ b_state = "done" => Len(b_progress) = Len(b_list)

\* a finished batch of two rows, the first of them failed
C16_Witness ==
    /\ component = "ConsultorCNPJ"
    /\ b_state = "done"
    /\ Len(b_list) = 2
    /\ Len(b_results) = 2
    /\ b_results[1].Status = "ERRO_CONSULTA"

\* the resolve made a request and got no record from the source
SourcesFailed(c) ==
    /\ Requests(c.trace) # <<>>
    /\ c.raised \/ NotFoundRecord(the(c.ret))

\* C19: an identifier whose every source times out or fails gets a batch
\* record with the unknown status, validity false and no metropolitan area,
\* and the batch goes on with the next identifier.
C19_FailedIdentifierRecord ==
    \A k \in 1..Len(BatchCalls) :
        SourcesFailed(BatchCalls[k]) =>
            /\ ~BatchCalls[k].raised
            /\ b_state # "raised"
            /\ k <= Len(b_results) =>
                  /\ b_results[k].Status = "ERRO_CONSULTA"
                  /\ b_results[k].Validacao_Municipio = "NAO"
                  /\ b_results[k].Regiao_Metropolitana = "N/A"

\* the first row timed out, the second row has been processed
C19_Witness ==
    /\ Len(BatchCalls) = 2
    /\ Len(b_results) = 2
    /\ SourcesFailed(BatchCalls[1])
    /\ b_results[1].Status = "ERRO_CONSULTA"
    /\ b_results[1].Regiao_Metropolitana = "N/A"
    /\ b_results[2].Status = "ATIVO"

\* the row just recorded is a punctuated identifier for which the first
\* source reported SP / SAO PAULO, and the directory lists SAO PAULO under SP
SaoPauloRow ==
    /\ component = "ConsultorCNPJ"
    /\ b_state \in {"running", "done"}
    /\ pc \in {"loop", "idle"}
    /\ b_results # <<>>
    /\ Len(BatchCalls) = Len(b_results)
    /\ LET k == Len(b_results)
           dados_api == the(BatchCalls[k].ret)
       IN  /\ b_list[k].CNPJ = IdDisplay
           /\ ~NotFoundRecord(dados_api)
           /\ dados_api.uf = "SP"
           /\ dados_api.municipio = <<"S", "A", "O", " ", "P", "A", "U", "L", "O">>
           /\ "SP" \in DOMAIN cache_municipios
           /\ is_in(<<"S", "A", "O", " ", "P", "A", "U", "L", "O">>, cache_municipios["SP"])

\* C20: for a punctuated identifier for which the first source reports a
\* region and municipality that are in the locality directory and in the
\* region's metropolitan area (SP / SAO PAULO), the output record carries the
\* canonical digits-only identifier, the reported region, validity true and
\* the metropolitan area's display name.
C20_ValidatedRecord ==
    SaoPauloRow =>
        LET r == b_results[Len(b_results)]
        IN  /\ r.CNPJ = Canonical(IdDisplay)
            /\ r.UF_API = "SP"
            /\ r.Validacao_Municipio = "SIM"
            /\ r.Regiao_Metropolitana = metropolitan_regions["SP"].name

C20_Witness ==
    /\ SaoPauloRow
    /\ b_results[Len(b_results)].UF_API = "SP"
    /\ b_results[Len(b_results)].Validacao_Municipio = "SIM"
    /\ b_results[Len(b_results)].Regiao_Metropolitana = "RM_SAOPAULO"

Source1Names == {"cnpjs.dev", "brasilapi", "sintegra"}

\* the identifier with its punctuation removed
CanonicalId(cnpj) == StripPunct(cnpj)

\* C17: when two workers resolve the same uncached identifier concurrently,
\* at most one of them sends requests for it and the other obtains the first
\* worker's result: a first-source request that was answered with a record is
\* the only first-source request for its canonical identifier, and the workers
\* that resolved one identifier hold the same record.
C17_OneRequesterPerIdentifier ==
    component \in ResolverWorkers =>
        /\ \A i \in 1..Len(w_events) : \A j \in 1..Len(w_events) :
              (/\ i # j
               /\ w_events[i].ev = "request" /\ w_events[i].src \in Source1Names
               /\ w_events[j].ev = "request" /\ w_events[j].src \in Source1Names
               /\ CanonicalId(w_events[i].arg) = CanonicalId(w_events[j].arg))
              => ~w_events[i].ok
        /\ \A v \in 1..NumWorkers : \A w \in 1..NumWorkers :
              (/\ workers[v].pc = "done" /\ workers[w].pc = "done"
               /\ ~workers[v].raised /\ ~workers[w].raised
               /\ workers[v].result # None /\ workers[w].result # None
               /\ CanonicalId(workers[v].arg) = CanonicalId(workers[w].arg))
              => workers[v].result = workers[w].result

\* the second worker arrives after the first has stored its record
C17_Witness ==
    /\ component = "CNPJDataFetcher"
    /\ workers[1].pc = "done" /\ workers[2].pc = "done"
    /\ workers[1].arg = IdDisplay /\ workers[2].arg = IdCanon
    /\ Len(w_events) = 2
    /\ w_events[1].w = 1 /\ w_events[1].ev = "request" /\ w_events[1].ok
    /\ w_events[2].w = 1 /\ w_events[2].ev = "write"
    /\ workers[2].result = workers[1].result

\* C18: when several workers concurrently ask for the municipality list of
\* one uncached region code, at most one fetch for the region code is sent
\* and the cache entry is written once: a fetch that was answered with a list
\* is the only fetch for its region code, and no region code is written twice.
C18_OneFetchPerRegion ==
    component \in DirectoryWorkers =>
        \A i \in 1..Len(w_events) : \A j \in 1..Len(w_events) :
            (i # j /\ w_events[i].key = w_events[j].key
                   /\ w_events[i].ev = w_events[j].ev) =>
                /\ w_events[i].ev = "request"
                /\ ~w_events[i].ok

\* the second worker arrives after the first has written the entry
C18_Witness ==
    /\ component = "APILocalidades"
    /\ workers[1].pc = "done" /\ workers[2].pc = "done"
    /\ workers[1].arg = "SP" /\ workers[2].arg = "SP"
    /\ Len(w_events) = 2
    /\ w_events[1].w = 1 /\ w_events[1].ev = "request" /\ w_events[1].ok
    /\ w_events[2].w = 1 /\ w_events[2].ev = "write"
    /\ workers[2].result = workers[1].result
    /\ Len(workers[2].result) = 3

\* a success status with a body that cannot be decoded or has not the
\* expected shape
ParseFailures == {"bad_json", "bad_shape"}

\* C24: a parsing failure inside the first source adapter is treated as
\* source unavailable: the resolver does not abort, and the next source is
\* asked for the same identifier.
C24_ParseFailureFallsThrough ==
    \A i \in 1..Len(w_events) :
        (/\ w_events[i].ev = "request"
         /\ w_events[i].src \in Source1Names
         /\ w_events[i].kind \in ParseFailures) =>
            LET w == w_events[i].w
            IN  /\ ~workers[w].raised
                /\ component = "CNPJDataFetcher" =>
                      \/ workers[w].pc = "src2"
                      \/ \E j \in (i + 1)..Len(w_events) :
                            /\ w_events[j].w = w
                            /\ w_events[j].ev = "request"
                            /\ w_events[j].src = "moccasin"
                            /\ w_events[j].arg = w_events[i].arg

\* the first source answered with a body of the wrong shape, the second
\* source has been asked and the record stored
C24_Witness ==
    /\ component = "CNPJDataFetcher"
    /\ Len(w_events) = 3
    /\ w_events[1].src = "cnpjs.dev" /\ w_events[1].kind = "bad_shape"
    /\ w_events[2].src = "moccasin" /\ w_events[2].w = w_events[1].w
    /\ w_events[2].ok
    /\ w_events[3].ev = "write"
    /\ workers[w_events[1].w].pc = "done"
    /\ the(workers[w_events[1].w].result).fonte = "moccasin"

(***************************************************************************)
(* Claims about the validated records.                                     *)
(***************************************************************************)
\* C21: in every validated record a metropolitan area other than none
\* implies that the validity flag is true: the classifier is consulted only
\* when the validation of the municipality succeeded.
C21_MetroImpliesValid ==
    /\ \A k \in 1..Len(b_results) :
          b_results[k].Regiao_Metropolitana # "N/A" =>
              b_results[k].Validacao_Municipio = "SIM"
    /\ d_last.op = "validate_location" =>
          (d_last.ret.metropolitan => d_last.ret.valid)

\* a valid municipality of a metropolitan area
C21_Witness ==
    /\ d_last.op = "validate_location"
    /\ d_last.uf = "SP"
    /\ d_last.name = <<"i", "t", "u">>
    /\ d_last.ret.valid
    /\ d_last.ret.metropolitan

\* the municipality the first source reported is empty or the not-available
\* sentinel, or the region code is none of the 27
NoUsableLocation(dados_api) ==
    \/ dados_api.uf \notin ValidUFs
    \/ dados_api.municipio \in {<<>>, <<"N", "/", "A">>}

\* a step of the batch that validates such a location makes no lookup
NoLookupWithoutLocation ==
    (/\ component = "ConsultorCNPJ"
     /\ pc \in {"validar_uf", "validar_municipio"}
     /\ NoUsableLocation(the(result))) => d_calls' = d_calls

\* a record made from such a location is not valid
NotValidWithoutLocation ==
    (component = "ConsultorCNPJ" /\ b_state \in {"running", "done"}) =>
        \A k \in 1..Len(b_results) :
            (k <= Len(BatchCalls) /\ BatchCalls[k].ret # None
               /\ the(BatchCalls[k].ret).municipio \in {<<>>, <<"N", "/", "A">>}) =>
                b_results[k].Validacao_Municipio = "NAO"

\* C22: the batch consults the locality directory for an identifier only
\* when the resolved region code is one of the 27 valid codes and the resolved
\* municipality is non-empty; a record whose resolved municipality is empty
\* or the not-available sentinel never gets validity true and triggers no
\* locality fetch.
C22_DirectoryOnlyForUsableLocation ==
    [][NoLookupWithoutLocation]_vars /\ []NotValidWithoutLocation

\* a row whose resolution failed has been recorded without any lookup
C22_Witness ==
    /\ component = "ConsultorCNPJ"
    /\ Len(b_results) = 1
    /\ Len(BatchCalls) = 1
    /\ NotFoundRecord(the(BatchCalls[1].ret))
    /\ b_results[1].UF_API = "N/A"
    /\ b_results[1].Validacao_Municipio = "NAO"
    /\ d_calls = <<>>

\* C23: in each validated record the region match flag is true exactly when
\* the expected region code equals the resolved one as case-sensitive
\* strings; the municipality match flag is true exactly when the expected and
\* the resolved municipality match under case-insensitive substring
\* tolerance; a record whose resolution failed is never flagged as matching
\* the expected municipality.
C23_MatchFlags ==
    (component = "ConsultorCNPJ" /\ b_state \in {"running", "done"}) =>
        \A k \in 1..Len(b_results) :
            LET r == b_results[k]
                expected == upper(r.Municipio_Origem)
                resolved == upper(r.Municipio_API)
            IN  /\ r.Match_UF = "SIM" <=> r.UF_Origem = r.UF_API
                /\ r.Match_UF \in {"SIM", "NAO"}
                /\ contains(resolved, expected) => r.Match_Municipio = "SIM"
                /\ r.Match_Municipio = "SIM" => EitherContains(expected, resolved)
                /\ r.Match_Municipio \in {"SIM", "NAO"}
                /\ r.Status = "ERRO_CONSULTA" => r.Match_Municipio = "NAO"

\* a record that matches in both, and one whose region differs in case only
C23_Witness ==
    /\ component = "ConsultorCNPJ"
    /\ Len(b_results) = 2
    /\ b_results[1].CNPJ = IdDisplay
    /\ b_results[1].Match_UF = "SIM"
    /\ b_results[1].Match_Municipio = "SIM"
    /\ b_results[1].Municipio_API = <<"S", "A", "O", " ", "P", "A", "U", "L", "O">>
    /\ b_results[2].UF_Origem = "sp"
    /\ b_results[2].UF_API = "SP"
    /\ b_results[2].Match_UF = "NAO"

(***************************************************************************)
(* C30: every record returned by a resolve has a status of the three-value *)
(* enum (ATIVO, INATIVO, ERRO_CONSULTA in consulta_cnpj_massa.py): active  *)
(* exactly when the source reports the company as active, inactive only    *)
(* when the source reports a status that is not active, unknown when the   *)
(* source gives no status or the resolution failed.                        *)
(***************************************************************************)
StatusEnum == {"ATIVO", "INATIVO", "ERRO_CONSULTA"}

\* the status the source reports in answer o, "None" when it gives none
SourceReports(o) ==
    IF o.kind = "ok" /\ "status" \in DOMAIN o.body THEN o.body.status ELSE "None"

StatusMapped(o, status) ==
    /\ status \in StatusEnum
    /\ status = "ATIVO" <=> SourceReports(o) = "ATIVA"
    /\ status = "INATIVO" => SourceReports(o) \notin {"ATIVA", "None"}
    /\ SourceReports(o) = "None" => status = "ERRO_CONSULTA"

\* the records returned so far, and the record of whichever resolve comes
\* next, whatever the source answers
C30_StatusEnum ==
    /\ \A i \in 1..Len(calls) :
          calls[i].ret # None => the(calls[i].ret).status \in StatusEnum
    /\ \A cnpj \in ResolveIds : \A o \in RegistryOutcomesFor(cache, cnpj) \ {NoRequest} :
          LET r == consultar_cnpj(cache, cnpj, o, Len(calls))
          IN  r.ret # None => StatusMapped(o, the(r.ret).status)

\* the same without the case of a source that gives no status
C30_StatusEnumOfReported ==
    \A cnpj \in ResolveIds : \A o \in RegistryOutcomesFor(cache, cnpj) \ {NoRequest} :
        LET r == consultar_cnpj(cache, cnpj, o, Len(calls))
        IN  (r.ret # None /\ (o.kind = "ok" => "status" \in DOMAIN o.body)) =>
                StatusMapped(o, the(r.ret).status)

\* three resolves have returned records of the three statuses, the inactive
\* one from an answer that has no status
C30_Witness ==
    /\ component = "ConsultorCNPJ"
    /\ \A i \in 1..Len(calls) : calls[i].ret # None
    /\ {the(calls[i].ret).status : i \in 1..Len(calls)} = StatusEnum
    /\ \E i \in 1..Len(calls) :
          /\ the(calls[i].ret).status = "INATIVO"
          /\ the(calls[i].ret).razao_social = "GAMA ME"

(***************************************************************************)
(* Claims about the HTML-scraping resolver.                                *)
(***************************************************************************)
\* the page holds the labelled fields Razao Social, Municipio and UF
LabelledPage(page) ==
    /\ re_search_label(page, <<"R", "a", "z", "a", "o", " ", "S", "o", "c", "i", "a", "l">>) # None
    /\ re_search_label(page, <<"M", "u", "n", "i", "c", "i", "p", "i", "o">>) # None
    /\ re_search_label(page, <<"U", "F">>) # None

\* the first source has just answered the resolve in progress with success
\* and such a page
ReceitaAnsweredLabelled ==
    /\ component = "CNPJScraper"
    /\ pc \in {"sleep", "store"}
    /\ Len(trace) = 1
    /\ frame.response.kind = "ok"
    /\ LabelledPage(frame.response.body)

\* C25: when the first source (Receita Federal) answers with success and a
\* page that holds the labelled fields, scrape_receita_federal returns a
\* record with the extracted values, and scrape_cnpj goes on to cache and
\* return it tagged receita_federal, without asking Sintegra.
C25_ReceitaRecord ==
    ReceitaAnsweredLabelled =>
        /\ result # None
        /\ the(result).fonte = "receita_federal"
        /\ the(result).razao_social = the(Receita_matches(frame.response.body).razao_social)
        /\ the(result).uf = the(Receita_matches(frame.response.body).uf)
        /\ pc = "store"

\* the page with the three labels has been received
C25_Witness ==
    /\ ReceitaAnsweredLabelled
    /\ frame.response.body[1] = <<"R", "a", "z", "a", "o", " ", "S", "o", "c", "i", "a", "l", ":", " ", "A", "C", "M", "E", " ", "L", "T", "D", "A">>
    /\ cur = IdCanon

(***************************************************************************)
(* C29: scrape_all_companies with max_workers = k never has more than k    *)
(* lookups in flight and, under every interleaving and every outcome of a  *)
(* lookup, terminates with exactly one result row per unique company, each *)
(* once, in completion order.                                              *)
(***************************************************************************)
InFlightBounded == Cardinality(InFlight) <= pool.max_workers

ResultCnpjs == [j \in 1..Len(pool.results) |-> pool.results[j].CNPJ]
CompletionCnpjs == [j \in 1..Len(pool.completion) |-> pool.rows[pool.completion[j]]]
SheetCnpjs == {pool.df[i] : i \in 1..Len(pool.df)}

\* never a company twice; at the return every company of the sheet once
OneRowPerCompany ==
    /\ \A a, b \in 1..Len(ResultCnpjs) : ResultCnpjs[a] = ResultCnpjs[b] => a = b
    /\ \A j \in 1..Len(ResultCnpjs) : ResultCnpjs[j] \in SheetCnpjs
    /\ pool.pc = "returned" =>
         /\ Len(ResultCnpjs) = Cardinality(SheetCnpjs)
         /\ \A c \in SheetCnpjs : \E j \in 1..Len(ResultCnpjs) : ResultCnpjs[j] = c

InCompletionOrder == pool.pc = "returned" => ResultCnpjs = CompletionCnpjs

PoolTerminates == (pool.pc # "none") ~> (pool.pc = "returned")

LateCnpjs ==
    LET late == SelectSeq(pool.completion, LAMBDA i : i \notin pool.finished)
    IN  [j \in 1..Len(late) |-> pool.rows[late[j]]]

\* the rows of the lookups that had finished when as_completed started come
\* first, the others follow in completion order
LateInCompletionOrder ==
    pool.pc = "returned" =>
        LET e == Cardinality(pool.finished)
        IN  /\ {ResultCnpjs[j] : j \in 1..e} = {pool.rows[i] : i \in pool.finished}
            /\ SubSeq(ResultCnpjs, e + 1, Len(ResultCnpjs)) = LateCnpjs

============================================================================
